---- MODULE Spec2Model ----
(***************************************************************************)
(* A model of the data-cleaning pipeline of clarifAI                       *)
(* (src/clarifAI-main/src/server/lib/dataProcessor.ts, class               *)
(* DataProcessor): the orchestrator processData and its four stages        *)
(* fixTypos, normalizeLabels, fillMissingValues and balanceClasses,        *)
(* together with the helpers they call.                                    *)
(*                                                                         *)
(* JavaScript values are modelled as records of one shape, so that any two *)
(* of them can be compared: a string is a sequence of one-character        *)
(* strings, a number is a fraction n/d.  A row of a dataset is an object   *)
(* on a heap: the arrays the program copies ([...data]) hold references    *)
(* (heap indexes), and an assignment row[column] = v writes the heap.      *)
(***************************************************************************)
EXTENDS Integers, Sequences, FiniteSets, TLC

\* ------------------------------------------------------------------ values

S(chars) == [t |-> "s", s |-> chars, n |-> 0, d |-> 1]
Q(num, den) == [t |-> "n", s |-> <<>>, n |-> num, d |-> den]
N(k) == Q(k, 1)
Null == [t |-> "null", s |-> <<>>, n |-> 0, d |-> 1]
Undefined == [t |-> "undef", s |-> <<>>, n |-> 0, d |-> 1]
NaN == [t |-> "nan", s |-> <<>>, n |-> 0, d |-> 1]

IsString(v) == v.t = "s"
\* v == null / v != null of JavaScript: null and undefined only
IsNullish(v) == v.t \in {"null", "undef"}

\* ------------------------------------------------------------- sequences

Rep(x, k) == [i \in 1..k |-> x]
SeqsUpTo(set, k) == UNION {[1..m -> set] : m \in 0..k}
Count(seq, x) == Cardinality({i \in 1..Len(seq) : seq[i] = x})
Min(a, b) == IF a < b THEN a ELSE b

\* the k-th smallest number of a set of numbers
KthOf(set, k) == CHOOSE i \in set : Cardinality({j \in set : j <= i}) = k

FirstOccurrences(seq) == {i \in 1..Len(seq) : \A j \in 1..(i - 1) : seq[j] # seq[i]}
ElementsAt(seq, indices) == [k \in 1..Cardinality(indices) |-> seq[KthOf(indices, k)]]
\* the insertion order of a Set or of the keys of a Map: first occurrences
Dedup(seq) == ElementsAt(seq, FirstOccurrences(seq))

\* how many elements a stable sort puts before seq[i]
Place(seq, i, Before(_, _)) ==
    Cardinality({j \in 1..Len(seq) :
                    Before(seq[j], seq[i]) \/ (j < i /\ ~Before(seq[i], seq[j]))})
\* Array.prototype.sort with a comparator: a stable sort
StableSort(seq, Before(_, _)) ==
    [k \in 1..Len(seq) |-> seq[CHOOSE i \in 1..Len(seq) : Place(seq, i, Before) = k - 1]]

RECURSIVE Gcd(_, _)
Gcd(a, b) == IF b = 0 THEN a ELSE Gcd(b, a % b)
Abs(a) == IF a < 0 THEN -a ELSE a
Reduce(num, den, g) == IF num = 0 THEN Q(0, 1) ELSE Q(num \div g, den \div g)
\* the number num/den in lowest terms, den > 0
Frac(num, den) == Reduce(num, den, Gcd(Abs(num), den))
NumLess(a, b) == a.n * b.d < b.n * a.d
NumAdd(a, b) == Frac(a.n * b.d + b.n * a.d, a.d * b.d)
NumHalf(a) == Frac(a.n, 2 * a.d)

\* ---------------------------------------------------------------- strings

Lowers == <<"a","b","c","d","e","f","g","h","i","j","k","l","m",
            "n","o","p","q","r","s","t","u","v","w","x","y","z">>
Uppers == <<"A","B","C","D","E","F","G","H","I","J","K","L","M",
            "N","O","P","Q","R","S","T","U","V","W","X","Y","Z">>
Digits == <<"0","1","2","3","4","5","6","7","8","9">>
LowerSet == {Lowers[i] : i \in 1..26}
UpperSet == {Uppers[i] : i \in 1..26}
DigitSet == {Digits[i] : i \in 1..10}
UpperToLower == [c \in UpperSet |-> Lowers[CHOOSE i \in 1..26 : Uppers[i] = c]]
DigitValue == [c \in DigitSet |-> (CHOOSE i \in 1..10 : Digits[i] = c) - 1]

IsSpace(c) == c \in {" ", "\t", "\n"}
\* \w of a regular expression
IsWordChar(c) == c \in LowerSet \cup UpperSet \cup DigitSet \cup {"_"}

toLowerCase(str) ==
    [i \in 1..Len(str) |-> IF str[i] \in UpperSet THEN UpperToLower[str[i]] ELSE str[i]]

NonSpaces(str) == {i \in 1..Len(str) : ~IsSpace(str[i])}
MinOf(set) == CHOOSE i \in set : \A j \in set : i <= j
MaxOf(set) == CHOOSE i \in set : \A j \in set : j <= i
Between(str, keep) == IF keep = {} THEN <<>> ELSE SubSeq(str, MinOf(keep), MaxOf(keep))
trim(str) == Between(str, NonSpaces(str))

RECURSIVE DigitsToInt(_, _)
DigitsToInt(str, acc) ==
    IF str = <<>> THEN acc
    ELSE DigitsToInt(Tail(str), 10 * acc + DigitValue[Head(str)])

RECURSIVE IntToDigits(_)
IntToDigits(k) ==
    IF k < 10 THEN <<Digits[k + 1]>>
    ELSE Append(IntToDigits(k \div 10), Digits[(k % 10) + 1])

RECURSIVE FractionDigits(_, _)
\* the decimal digits of rem/den < 1; den is a power of two in this model
FractionDigits(rem, den) ==
    IF rem = 0 THEN <<>>
    ELSE <<Digits[((10 * rem) \div den) + 1]>> \o FractionDigits((10 * rem) % den, den)

\* String(number) of a non-negative number n/d
NumberToStr(v) ==
    IF v.n % v.d = 0 THEN IntToDigits(v.n \div v.d)
    ELSE IntToDigits(v.n \div v.d) \o <<".">> \o FractionDigits(v.n % v.d, v.d)

\* String(value)
ToStr(v) ==
    CASE v.t = "s" -> v.s
      [] v.t = "null" -> <<"n","u","l","l">>
      [] v.t = "undef" -> <<"u","n","d","e","f","i","n","e","d">>
      [] v.t = "nan" -> <<"N","a","N">>
      [] OTHER -> NumberToStr(v)

\* Number(value).  Of the numerals of JavaScript the strings of this model
\* hold only unsigned decimal integers (no sign, point, exponent or radix
\* prefix); any other non-blank string is NaN.
ParseNumeral(body) ==
    IF body = <<>> THEN N(0)
    ELSE IF \A i \in 1..Len(body) : body[i] \in DigitSet
         THEN N(DigitsToInt(body, 0))
         ELSE NaN
ToNumber(v) ==
    CASE v.t = "n" -> v
      [] v.t = "null" -> N(0)
      [] v.t = "s" -> ParseNumeral(trim(v.s))
      [] OTHER -> NaN
IsNaNNumber(v) == ToNumber(v).t = "nan"

\* truthiness of a value (if (v), v || w)
Truthy(v) ==
    CASE v.t = "s" -> v.s # <<>>
      [] v.t = "n" -> v.n # 0
      [] OTHER -> FALSE

\* ------------------------------------------------------------------- rows
\* A row is null (a hole of the input array) or an object: its cells in key
\* (insertion) order.

NullRow == [isNull |-> TRUE, cells |-> <<>>]
Row(cells) == [isNull |-> FALSE, cells |-> cells]
Cell(k, v) == [k |-> k, v |-> v]

\* Object.keys(row); the caller guards against a null row
Keys(row) == [i \in 1..Len(row.cells) |-> row.cells[i].k]
HasKey(row, col) == \E i \in 1..Len(row.cells) : row.cells[i].k = col
\* row[col] of an object
Get(row, col) ==
    IF HasKey(row, col)
    THEN row.cells[CHOOSE i \in 1..Len(row.cells) : row.cells[i].k = col].v
    ELSE Undefined
\* row[col] = v
Put(row, col, v) ==
    IF HasKey(row, col)
    THEN Row([i \in 1..Len(row.cells) |->
                 IF row.cells[i].k = col THEN Cell(col, v) ELSE row.cells[i]])
    ELSE Row(Append(row.cells, Cell(col, v)))
\* data.map(row => row[column]); the caller guards against null rows
Column(rows, col) == [i \in 1..Len(rows) |-> Get(rows[i], col)]
AnyNullRow(rows) == \E i \in 1..Len(rows) : rows[i].isNull

\* --------------------------------------------------------- type inference

MissingWords ==
    { <<"n","u","l","l">>, <<"u","n","d","e","f","i","n","e","d">>,
      <<"n","a">>, <<"n","/","a">>, <<"n","o","n","e">> }

isMissing(v) ==
    \/ IsNullish(v)
    \/ IsString(v) /\ v.s = <<>>
    \/ IsString(v) /\ trim(v.s) = <<>>
    \/ IsString(v) /\ toLowerCase(v.s) \in MissingWords

NonMissing(col) == SelectSeq(col, LAMBDA v : ~isMissing(v))

\* numericRatio > 0.8, uniqueRatio < 0.1, in integers
TypeOfNonMissing(nonMissingData) ==
    IF Len(nonMissingData) = 0 THEN "text"
    ELSE IF 10 * Len(SelectSeq(nonMissingData, LAMBDA v : ~IsNaNNumber(v)))
               > 8 * Len(nonMissingData)
         THEN "numeric"
    ELSE IF 10 * Len(Dedup(nonMissingData)) < Len(nonMissingData) THEN "categorical"
    ELSE "text"
inferColumnType(col) == TypeOfNonMissing(NonMissing(col))

\* ---------------------------------------------------------------- imputer

\* numbers.sort((a, b) => a - b)
SortAscending(nums) == StableSort(nums, NumLess)

\* sorted[mid] of the source is sorted[mid + 1] here: sequences start at 1
MiddleOf(sorted) ==
    IF Len(sorted) % 2 = 0
    THEN NumHalf(NumAdd(sorted[Len(sorted) \div 2], sorted[(Len(sorted) \div 2) + 1]))
    ELSE sorted[(Len(sorted) \div 2) + 1]

calculateMedianUnsorted(numbers) == MiddleOf(numbers)
calculateMedian(numbers) == MiddleOf(SortAscending(numbers))

\* entries.sort((a, b) => b[1] - a[1])
SortByCountDesc(entries) == StableSort(entries, LAMBDA a, b : a.c > b.c)

CountOf(col, keys) == [i \in 1..Len(keys) |-> [v |-> keys[i], c |-> Count(col, keys[i])]]
\* the entries of the Map of counts, in insertion order
CountEntries(col) == CountOf(col, Dedup(col))

\* called on non-empty data only
getMostFrequent(col) == SortByCountDesc(CountEntries(col))[1].v

Unknown == S(<<"U","n","k","n","o","w","n">>)
EmptyString == S(<<>>)

\* numbers.length > 0 ? this.calculateMedian(numbers) : 0
MedianOrZero(numbers) == IF Len(numbers) > 0 THEN calculateMedian(numbers) ELSE N(0)
ParsedNumbers(values) ==
    SelectSeq([i \in 1..Len(values) |-> ToNumber(values[i])], LAMBDA x : x.t # "nan")
\* mostCommon || 'Unknown'
OrUnknown(mostCommon) == IF Truthy(mostCommon) THEN mostCommon ELSE Unknown

FillValueOf(nonMissingData, type) ==
    IF Len(nonMissingData) = 0 THEN EmptyString
    ELSE CASE type = "numeric" -> MedianOrZero(ParsedNumbers(nonMissingData))
           [] type = "categorical" -> getMostFrequent(nonMissingData)
           [] OTHER -> OrUnknown(getMostFrequent(nonMissingData))

calculateFillValue(col, type) == FillValueOf(NonMissing(col), type)

Warning(type, severity, count) == [type |-> type, severity |-> severity, count |-> count]

MissingIndices(columnData) == {i \in 1..Len(columnData) : isMissing(columnData[i])}

\* filledData[index][column] = fillValue, for the indices of the missing cells
FillCells(rows, column, missingIndices, fillValue) ==
    [i \in 1..Len(rows) |->
        IF i \in missingIndices THEN Put(rows[i], column, fillValue) ELSE rows[i]]

\* one column of fillMissingValues, its try block: acc holds the rows, the
\* fill count and the warnings so far
FillColumn(acc, column, columnData) ==
    IF MissingIndices(columnData) = {} THEN acc
    ELSE [rows |-> FillCells(acc.rows, column, MissingIndices(columnData),
                       calculateFillValue(columnData, inferColumnType(columnData))),
          fillCount |-> acc.fillCount + Cardinality(MissingIndices(columnData)),
          warnings |-> acc.warnings]

\* data.map(row => row[column]) throws on a null row: caught for this column
FillColumnCaught(acc) ==
    [acc EXCEPT !.warnings = Append(@, Warning("MISSING_VALUE_WARNING", "medium", 0))]

RECURSIVE FillColumns(_, _)
\* the loop over the columns: the rows are the objects both data and
\* filledData refer to, so a column is read as the earlier columns left it
FillColumns(cols, acc) ==
    IF cols = <<>> THEN acc
    ELSE FillColumns(Tail(cols),
             IF AnyNullRow(acc.rows) THEN FillColumnCaught(acc)
             ELSE FillColumn(acc, Head(cols), Column(acc.rows, Head(cols))))

FillResult(r) ==
    [rows |-> r.rows,
     warnings |-> Append(r.warnings, Warning("MISSING_VALUE_COMPLETE", "low", r.fillCount)),
     throws |-> FALSE,
     count |-> r.fillCount]

\* fillMissingValues(data, result) on the rows data refers to: the rows after
\* the call, the warnings it appends, and whether it throws to its caller
fillMissingValues(rows) ==
    IF Len(rows) = 0 THEN [rows |-> rows, warnings |-> <<>>, throws |-> FALSE, count |-> 0]
    ELSE IF rows[1].isNull
    THEN [rows |-> rows, warnings |-> <<>>, throws |-> TRUE, count |-> 0]
    ELSE FillResult(FillColumns(Keys(rows[1]),
                        [rows |-> rows, fillCount |-> 0, warnings |-> <<>>]))

\* ------------------------------------------------------- label normalizer

\* identifyCategoricalColumns(data): throws on a null row it reads
identifyCategoricalThrows(rows) ==
    /\ Len(rows) > 0
    /\ rows[1].isNull \/ (Len(rows[1].cells) > 0 /\ AnyNullRow(rows))

NotNullish(col) == SelectSeq(col, LAMBDA v : ~IsNullish(v))

\* uniqueRatio < 0.1 && uniqueValues.size > 1 && uniqueValues.size < 50
CategoricalBy(valueCount, uniqueSize) ==
    /\ valueCount > 0
    /\ 10 * uniqueSize < valueCount
    /\ uniqueSize > 1
    /\ uniqueSize < 50

IsCategoricalColumn(rows, column) ==
    CategoricalBy(Len(NotNullish(Column(rows, column))),
                  Len(Dedup(NotNullish(Column(rows, column)))))

identifyCategoricalColumns(rows) ==
    IF Len(rows) = 0 THEN <<>>
    ELSE SelectSeq(Keys(rows[1]), LAMBDA column : IsCategoricalColumn(rows, column))

\* String(value).toLowerCase().trim()
GroupKey(v) == trim(toLowerCase(ToStr(v)))

\* the variants of one group, in the order the values were met
Variants(values, key) == SelectSeq(values, LAMBDA v : GroupKey(v) = key)

getMostCommonVariant(variants) == SortByCountDesc(CountEntries(variants))[1].v

CanonicalOf(variants) ==
    IF Len(variants) > 1 THEN getMostCommonVariant(variants) ELSE variants[1]

\* createNormalizationMap(values): values are distinct (the elements of a Set)
createNormalizationMap(values) ==
    [v \in {values[i] : i \in 1..Len(values)} |-> CanonicalOf(Variants(values, GroupKey(v)))]

\* a === b: NaN is identical to nothing, itself included
StrictEquals(a, b) == a.t # "nan" /\ a = b

\* the rows that hold a value of the map
MappedBy(rows, column, normalizedMap) ==
    {i \in 1..Len(rows) :
        /\ ~IsNullish(Get(rows[i], column))
        /\ Get(rows[i], column) \in DOMAIN normalizedMap}

ChangedByAll(rows, column, normalizedMap) == MappedBy(rows, column, normalizedMap)
ChangedBy(rows, column, normalizedMap) ==
    {i \in MappedBy(rows, column, normalizedMap) :
        ~StrictEquals(normalizedMap[Get(rows[i], column)], Get(rows[i], column))}

ApplyMap(acc, column, normalizedMap, changed) ==
    [rows |-> [i \in 1..Len(acc.rows) |->
                  IF i \in changed
                  THEN Put(acc.rows[i], column, normalizedMap[Get(acc.rows[i], column)])
                  ELSE acc.rows[i]],
     normalizationCount |-> acc.normalizationCount + Cardinality(changed),
     warnings |-> acc.warnings]

NormalizeWith(acc, column, normalizedMap) ==
    ApplyMap(acc, column, normalizedMap, ChangedBy(acc.rows, column, normalizedMap))

\* one column of normalizeLabels, its try block
NormalizeColumn(acc, column) ==
    NormalizeWith(acc, column,
        createNormalizationMap(Dedup(NotNullish(Column(acc.rows, column)))))

NormalizeColumnCaught(acc) ==
    [acc EXCEPT !.warnings = Append(@, Warning("NORMALIZATION_WARNING", "medium", 0))]

RECURSIVE NormalizeColumns(_, _)
NormalizeColumns(cols, acc) ==
    IF cols = <<>> THEN acc
    ELSE NormalizeColumns(Tail(cols),
             IF AnyNullRow(acc.rows) THEN NormalizeColumnCaught(acc)
             ELSE NormalizeColumn(acc, Head(cols)))

NormalizeResult(r) ==
    [rows |-> r.rows,
     warnings |-> Append(r.warnings,
          Warning("NORMALIZATION_COMPLETE", "low", r.normalizationCount)),
     throws |-> FALSE,
     count |-> r.normalizationCount]

NormalizeOver(rows, categoricalColumns) ==
    IF Len(categoricalColumns) = 0
    THEN [rows |-> rows, warnings |-> <<>>, throws |-> FALSE, count |-> 0]
    ELSE NormalizeResult(NormalizeColumns(categoricalColumns,
             [rows |-> rows, normalizationCount |-> 0, warnings |-> <<>>]))

\* normalizeLabels(data, result)
normalizeLabels(rows) ==
    IF identifyCategoricalThrows(rows)
    THEN [rows |-> rows, warnings |-> <<>>, throws |-> TRUE, count |-> 0]
    ELSE NormalizeOver(rows, identifyCategoricalColumns(rows))

\* ------------------------------------------------------------- statistics

generateStatisticsThrows(rows) ==
    /\ Len(rows) > 0
    /\ rows[1].isNull \/ (Len(rows[1].cells) > 0 /\ AnyNullRow(rows))

NanToNull(cells) ==
    [i \in 1..Len(cells) |-> IF cells[i].v.t = "nan" THEN Cell(cells[i].k, Null) ELSE cells[i]]

\* a serialization that writes numbers and strings alike
JsonOfUnquoted(row) ==
    IF row.isNull THEN NullRow
    ELSE Row([i \in 1..Len(row.cells) |-> Cell(row.cells[i].k, S(ToStr(row.cells[i].v)))])

\* what JSON.stringify(row) keeps of a row: the keys in order and their
\* values; a property holding undefined is left out, NaN is written null
JsonOf(row) ==
    IF row.isNull THEN NullRow
    ELSE Row(NanToNull(SelectSeq(row.cells, LAMBDA c : c.v.t # "undef")))

NoStats == [defined |-> FALSE, totalRows |-> 0, totalColumns |-> 0, missingValues |-> 0,
            duplicateRows |-> 0, columnTypes |-> <<>>]

\* missingValues += columnData.filter(value => this.isMissing(value)).length
CountMissing(rows, columns) ==
    Cardinality({p \in (1..Len(rows)) \X (1..Len(columns)) :
                    isMissing(Get(rows[p[1]], columns[p[2]]))})

StatisticsOver(rows, columns) ==
    [defined |-> TRUE,
     totalRows |-> Len(rows),
     totalColumns |-> Len(columns),
     missingValues |-> CountMissing(rows, columns),
     duplicateRows |-> Len(rows) - Cardinality({JsonOf(rows[i]) : i \in 1..Len(rows)}),
     columnTypes |-> [i \in 1..Len(columns) |->
                         <<columns[i], inferColumnType(Column(rows, columns[i]))>>]]

\* generateStatistics(data), where it does not throw
generateStatistics(rows) ==
    IF Len(rows) = 0
    THEN [defined |-> TRUE, totalRows |-> 0, totalColumns |-> 0, missingValues |-> 0,
          duplicateRows |-> 0, columnTypes |-> <<>>]
    ELSE StatisticsOver(rows, Keys(rows[1]))

\* --------------------------------------------------------- text normalizer

\* the corrections of correctTextLocal, in the order Object.entries gives
Corrections ==
    << <<<<"r","e","c","i","e","v","e">>, <<"r","e","c","e","i","v","e">>>>,
       <<<<"s","e","p","e","r","a","t","e">>, <<"s","e","p","a","r","a","t","e">>>>,
       <<<<"d","e","f","i","n","a","t","e","l","y">>, <<"d","e","f","i","n","i","t","e","l","y">>>>,
       <<<<"o","c","c","u","r","e","d">>, <<"o","c","c","u","r","r","e","d">>>>,
       <<<<"n","e","c","c","e","s","s","a","r","y">>, <<"n","e","c","e","s","s","a","r","y">>>>,
       <<<<"a","c","c","o","m","o","d","a","t","e">>, <<"a","c","c","o","m","m","o","d","a","t","e">>>>,
       <<<<"b","e","g","i","n","i","n","g">>, <<"b","e","g","i","n","n","i","n","g">>>>,
       <<<<"b","e","l","e","i","v","e">>, <<"b","e","l","i","e","v","e">>>>,
       <<<<"c","a","l","e","n","d","e","r">>, <<"c","a","l","e","n","d","a","r">>>>,
       <<<<"c","e","m","e","t","a","r","y">>, <<"c","e","m","e","t","e","r","y">>>>,
       <<<<"M","A","L","E">>, <<"M","a","l","e">>>>,
       <<<<"F","E","M","A","L","E">>, <<"F","e","m","a","l","e">>>>,
       <<<<"Y","E","S">>, <<"Y","e","s">>>>,
       <<<<"N","O">>, <<"N","o">>>>,
       <<<<"T","R","U","E">>, <<"T","r","u","e">>>>,
       <<<<"F","A","L","S","E">>, <<"F","a","l","s","e">>>> >>

\* \bwrong\b matches at index i, whatever the case of the letters
WordAt(str, i, wrong) ==
    /\ i + Len(wrong) - 1 <= Len(str)
    /\ toLowerCase(SubSeq(str, i, i + Len(wrong) - 1)) = toLowerCase(wrong)
    /\ i = 1 \/ ~IsWordChar(str[i - 1])
    /\ i + Len(wrong) > Len(str) \/ ~IsWordChar(str[i + Len(wrong)])

RECURSIVE ReplaceWord(_, _, _, _, _)
\* corrected.replace(new RegExp(`\\b${wrong}\\b`, 'gi'), right), from index i
ReplaceWord(str, i, wrong, right, acc) ==
    IF i > Len(str) THEN acc
    ELSE IF WordAt(str, i, wrong)
         THEN ReplaceWord(str, i + Len(wrong), wrong, right, acc \o right)
         ELSE ReplaceWord(str, i + 1, wrong, right, Append(acc, str[i]))

RECURSIVE ApplyCorrections(_, _)
ApplyCorrections(str, k) ==
    IF k > Len(Corrections) THEN str
    ELSE ApplyCorrections(ReplaceWord(str, 1, Corrections[k][1], Corrections[k][2], <<>>), k + 1)

RECURSIVE CollapseSpaces(_, _, _)
\* .replace(/\s+/g, ' ')
CollapseSpaces(str, i, acc) ==
    IF i > Len(str) THEN acc
    ELSE IF IsSpace(str[i])
         THEN IF i > 1 /\ IsSpace(str[i - 1])
              THEN CollapseSpaces(str, i + 1, acc)
              ELSE CollapseSpaces(str, i + 1, Append(acc, " "))
         ELSE CollapseSpaces(str, i + 1, Append(acc, str[i]))

RECURSIVE SkipSpaces(_, _)
SkipSpaces(str, i) == IF i <= Len(str) /\ IsSpace(str[i]) THEN SkipSpaces(str, i + 1) ELSE i

\* [.!?], any white space, then a lower-case letter at index j
PunctuationAt(str, i, j) ==
    str[i] \in {".", "!", "?"} /\ j <= Len(str) /\ str[j] \in LowerSet

RECURSIVE FixPunctuation(_, _, _)
\* .replace(/([.!?])\s*([a-z])/g, '$1 $2')
FixPunctuation(str, i, acc) ==
    IF i > Len(str) THEN acc
    ELSE IF PunctuationAt(str, i, SkipSpaces(str, i + 1))
         THEN FixPunctuation(str, SkipSpaces(str, i + 1) + 1,
                  acc \o <<str[i], " ", str[SkipSpaces(str, i + 1)]>>)
         ELSE FixPunctuation(str, i + 1, Append(acc, str[i]))

RECURSIVE SplitCamelCase(_, _, _)
\* .replace(/([a-z])([A-Z])/g, '$1 $2')
SplitCamelCase(str, i, acc) ==
    IF i > Len(str) THEN acc
    ELSE IF i < Len(str) /\ str[i] \in LowerSet /\ str[i + 1] \in UpperSet
         THEN SplitCamelCase(str, i + 2, acc \o <<str[i], " ", str[i + 1]>>)
         ELSE SplitCamelCase(str, i + 1, Append(acc, str[i]))

\* correctTextLocal(text), on the characters of a string
correctTextLocal(str) ==
    SplitCamelCase(
        FixPunctuation(trim(CollapseSpaces(ApplyCorrections(str, 1), 1, <<>>)), 1, <<>>),
        1, <<>>)

\* the texts of the inputs of this model, corrected once: a table of
\* correctTextLocal, which a text outside it falls back on
KnownTexts ==
    { <<"r","e","c","i","e","v","e"," ","m","a","i","l">>,
      <<"g","o","o","d"," ","m","o","r","n","i","n","g">>,
      <<"2","5">>, <<"m","a","l","e">>, <<"M","a","l","e">>,
      <<"f","e","m","a","l","e">>, <<>>,
      <<"j","o","h","n"," ","d","o","e">>,
      <<"j","o","h","n","@","i","n","v","a","l","i","d">>,
      <<"M","A","L","E">>,
      <<"j","a","n","e"," ","s","m","i","t","h">>,
      <<"j","a","n","e",".","s","m","i","t","h","@","e","m","a","i","l",".","c","o","m">> }
LocalCorrectionTable == {<<str, correctTextLocal(str)>> : str \in KnownTexts}
CorrectLocal(str) ==
    IF str \in KnownTexts
    THEN (CHOOSE entry \in LocalCorrectionTable : entry[1] = str)[2]
    ELSE correctTextLocal(str)

identifyTextThrows(rows) ==
    /\ Len(rows) > 0
    /\ \/ rows[1].isNull
       \/ /\ Len(rows[1].cells) > 0
          /\ \E i \in 1..Min(100, Len(rows)) : rows[i].isNull

IsLongText(v) == IsString(v) /\ Len(v.s) > 10

\* textCount > sample.length * 0.5 over data.slice(0, 100)
IsTextColumn(rows, column, sampleLen) ==
    2 * Cardinality({i \in 1..sampleLen : IsLongText(Get(rows[i], column))}) > sampleLen

identifyTextColumns(rows) ==
    IF Len(rows) = 0 THEN <<>>
    ELSE SelectSeq(Keys(rows[1]),
                   LAMBDA column : IsTextColumn(rows, column, Min(100, Len(rows))))

\* the text the enrichment model answers with, when it answers
AiReply == S(<<"c","l","e","a","n"," ","t","e","x","t">>)

\* the index of the first null row, or one past the last row
FirstNull(rows) ==
    IF AnyNullRow(rows) THEN MinOf({i \in 1..Len(rows) : rows[i].isNull}) ELSE Len(rows) + 1

\* typeof originalText === 'string' && originalText.length > 0 and the
\* corrected text differs
Corrected(originalText) ==
    /\ IsString(originalText)
    /\ Len(originalText.s) > 0
    /\ CorrectLocal(originalText.s) # originalText.s

CorrectedBefore(rows, column, stop) ==
    {i \in 1..(stop - 1) : Corrected(Get(rows[i], column))}

PassOver(rows, column, changed) ==
    [rows |-> [i \in 1..Len(rows) |->
                  IF i \in changed
                  THEN Put(rows[i], column, S(CorrectLocal(Get(rows[i], column).s)))
                  ELSE rows[i]],
     corrections |-> Cardinality(changed),
     threw |-> AnyNullRow(rows)]

\* the local pass of fixTypos over one column: correctedData[i][column] is
\* read row by row, so a null row stops the pass where it stands
LocalPass(rows, column) ==
    PassOver(rows, column, CorrectedBefore(rows, column, FirstNull(rows)))

\* corrected && corrected !== text && corrected.length < text.length * 2
Accepted(text) ==
    /\ IsLongText(text)
    /\ AiReply # text
    /\ Len(AiReply.s) < Len(text.s) * 2

\* correctTextWithAI(data, column): ai is the set of <<row, column>> whose
\* call is answered with AiReply; every other call fails or answers nothing,
\* and its text is kept
correctTextWithAI(rows, column, ai) ==
    [i \in 1..Len(rows) |->
        IF <<i, column>> \in ai /\ Accepted(Get(rows[i], column))
        THEN Put(rows[i], column, AiReply)
        ELSE rows[i]]

\* one column of fixTypos after its local pass; total is data.length
AfterPass(acc, column, ai, pass, correctionCount) ==
    IF pass.threw
    THEN [rows |-> pass.rows, correctionCount |-> correctionCount,
          warnings |-> Append(acc.warnings, Warning("TYPO_CORRECTION_WARNING", "medium", 0))]
    ELSE [rows |-> IF 10 * correctionCount < Len(pass.rows)
                   THEN correctTextWithAI(pass.rows, column, ai)
                   ELSE pass.rows,
          correctionCount |-> correctionCount,
          warnings |-> acc.warnings]

CountPass(acc, column, ai, pass) ==
    AfterPass(acc, column, ai, pass, acc.correctionCount + pass.corrections)

RECURSIVE TypoColumns(_, _, _)
\* the loop of fixTypos over the text columns
TypoColumns(cols, ai, acc) ==
    IF cols = <<>> THEN acc
    ELSE TypoColumns(Tail(cols), ai,
                     CountPass(acc, Head(cols), ai, LocalPass(acc.rows, Head(cols))))

TyposResult(r) ==
    [rows |-> r.rows,
     warnings |-> Append(r.warnings,
          Warning("TYPO_CORRECTION_COMPLETE", "low", r.correctionCount)),
     throws |-> FALSE]

TyposOver(rows, ai, textColumns) ==
    IF Len(textColumns) = 0
    THEN [rows |-> rows, warnings |-> <<>>, throws |-> FALSE]
    ELSE TyposResult(TypoColumns(textColumns, ai,
             [rows |-> rows, correctionCount |-> 0, warnings |-> <<>>]))

\* fixTypos(data, result)
fixTypos(rows, ai) ==
    IF identifyTextThrows(rows)
    THEN [rows |-> rows, warnings |-> <<>>, throws |-> TRUE]
    ELSE TyposOver(rows, ai, identifyTextColumns(rows))

\* --------------------------------------------------------------- balancer
\* Math.random() is modelled by a draw that is the same throughout one call
\* of balanceClasses: "lo" (just above 0) or "hi" (just below 1).

DrawKinds == {"lo", "hi"}
\* array[Math.floor(Math.random() * array.length)]
Pick(seq, rnd) == IF rnd = "lo" THEN seq[1] ELSE seq[Len(seq)]

\* data.some(row => row[targetColumn]) reads the rows in order and stops at
\* the first truthy value: it throws when it meets a null row before one
balanceThrows(rows, targetColumn) ==
    \E i \in 1..Len(rows) :
        /\ rows[i].isNull
        /\ \A j \in 1..(i - 1) : ~Truthy(Get(rows[j], targetColumn))

HasTarget(rows, targetColumn) ==
    \E i \in 1..Len(rows) : ~rows[i].isNull /\ Truthy(Get(rows[i], targetColumn))

\* a property name that is an array index: such keys come first, ascending
IsIndexKey(str) ==
    /\ str # <<>>
    /\ \A i \in 1..Len(str) : str[i] \in DigitSet
    /\ Len(str) = 1 \/ str[1] # "0"

SortKeysAscending(keys) ==
    StableSort(keys, LAMBDA a, b : DigitsToInt(a, 0) < DigitsToInt(b, 0))

\* the order in which Object.entries lists the keys of the distribution
EntriesOrder(keys) ==
    SortKeysAscending(SelectSeq(keys, IsIndexKey))
        \o SelectSeq(keys, LAMBDA k : ~IsIndexKey(k))

DistributionOf(names, ordered) ==
    [i \in 1..Len(ordered) |-> [className |-> ordered[i], count |-> Count(names, ordered[i])]]

ClassNames(rows, targetColumn) ==
    [i \in 1..Len(rows) |-> ToStr(Get(rows[i], targetColumn))]

\* getClassDistribution(data, targetColumn) as Object.entries lists it
getClassDistribution(rows, targetColumn) ==
    DistributionOf(ClassNames(rows, targetColumn),
                   EntriesOrder(Dedup(ClassNames(rows, targetColumn))))

MaxCount(distribution) ==
    CHOOSE m \in {distribution[i].count : i \in 1..Len(distribution)} :
        \A i \in 1..Len(distribution) : distribution[i].count <= m

PickOrZero(numbers, rnd) == IF Len(numbers) = 0 THEN N(0) ELSE Pick(numbers, rnd)

\* the draw of generateSyntheticNumeric: the mean when the numbers are all
\* equal (the deviation is 0); otherwise any real number may come out, and
\* the least and the greatest of the numbers stand for it
generateSyntheticNumeric(col, rnd) ==
    PickOrZero(SortAscending(ParsedNumbers(col)), rnd)

PickOrUndefined(nonMissingData, rnd) ==
    IF Len(nonMissingData) = 0 THEN Undefined ELSE Pick(nonMissingData, rnd)

generateSyntheticCategorical(col, rnd) == PickOrUndefined(NonMissing(col), rnd)

RECURSIVE JoinWithSpace(_)
JoinWithSpace(strs) ==
    IF Len(strs) = 0 THEN <<>>
    ELSE IF Len(strs) = 1 THEN strs[1]
    ELSE strs[1] \o <<" ">> \o JoinWithSpace(Tail(strs))

\* the places around the words: before the string, the spaces, after it
Boundaries(str) == {0, Len(str) + 1} \cup {i \in 1..Len(str) : str[i] = " "}
WordsBetween(str, bounds) ==
    [k \in 1..(Cardinality(bounds) - 1) |->
        SubSeq(str, KthOf(bounds, k) + 1, KthOf(bounds, k + 1) - 1)]
\* str.split(' ')
SplitOnSpace(str) == WordsBetween(str, Boundaries(str))

GeneratedText == S(<<"G","e","n","e","r","a","t","e","d"," ","t","e","x","t">>)

\* nonMissingData.join(' ').split(' ').filter(w => w.length > 2), each once
UniqueWords(nonMissingData) ==
    Dedup(SelectSeq(SplitOnSpace(JoinWithSpace([i \in 1..Len(nonMissingData) |->
                                                   nonMissingData[i].s])),
                    LAMBDA w : Len(w) > 2))

\* numWords is 2 for the least draw and 5 for the greatest
CombineWords(nonMissingData, uniqueWords, rnd) ==
    IF Len(uniqueWords) < 3 THEN Pick(nonMissingData, rnd)
    ELSE S(JoinWithSpace(Rep(Pick(uniqueWords, rnd), IF rnd = "lo" THEN 2 ELSE 5)))

TextFrom(nonMissingData, rnd) ==
    IF Len(nonMissingData) = 0 THEN GeneratedText
    ELSE CombineWords(nonMissingData, UniqueWords(nonMissingData), rnd)

generateSyntheticText(col, rnd) ==
    TextFrom(SelectSeq(col, LAMBDA v : ~isMissing(v) /\ IsString(v)), rnd)

ValueOfType(col, columnType, rnd) ==
    CASE columnType = "numeric" -> generateSyntheticNumeric(col, rnd)
      [] columnType = "categorical" -> generateSyntheticCategorical(col, rnd)
      [] OTHER -> generateSyntheticText(col, rnd)

SyntheticValue(col, rnd) == ValueOfType(col, inferColumnType(col), rnd)

SyntheticSample(classData, columns, rnd) ==
    Row([i \in 1..Len(columns) |->
            Cell(columns[i], SyntheticValue(Column(classData, columns[i]), rnd))])

\* generateSyntheticSamples(classData, count): new objects
generateSyntheticSamples(classData, count, rnd) ==
    IF Len(classData) = 0 THEN <<>>
    ELSE Rep(SyntheticSample(classData, Keys(classData[1]), rnd), count)

\* data.filter(row => row[targetColumn] === minorityClass): the class name
\* is a string, so only a string value is identical to it
ClassData(rows, targetColumn, minorityClass) ==
    SelectSeq(rows, LAMBDA row : Get(row, targetColumn) = S(minorityClass))

\* Math.floor(maxClassSize * 0.8) - classData.length samples, when positive
SamplesFor(classData, maxClassSize, rnd) ==
    IF ((8 * maxClassSize) \div 10) - Len(classData) > 0
    THEN generateSyntheticSamples(classData,
             ((8 * maxClassSize) \div 10) - Len(classData), rnd)
    ELSE <<>>

RECURSIVE BalanceMinorities(_, _, _, _, _, _)
BalanceMinorities(classes, rows, targetColumn, maxClassSize, rnd, acc) ==
    IF classes = <<>> THEN acc
    ELSE BalanceMinorities(Tail(classes), rows, targetColumn, maxClassSize, rnd,
             acc \o SamplesFor(ClassData(rows, targetColumn, Head(classes)),
                               maxClassSize, rnd))

NoBalance(rows, warnings, errors, throws) ==
    [added |-> <<>>, warnings |-> warnings, errors |-> errors, throws |-> throws]

Balanced(added) ==
    [added |-> added,
     warnings |-> <<Warning("CLASS_BALANCE_COMPLETE", "low", Len(added))>>,
     errors |-> <<>>,
     throws |-> FALSE]

\* count < maxClassSize * 0.8
MinorityClasses(classDistribution, maxClassSize) ==
    SelectSeq([i \in 1..Len(classDistribution) |->
                  IF 10 * classDistribution[i].count < 8 * maxClassSize
                  THEN classDistribution[i].className ELSE <<"-">>],
              LAMBDA name : name # <<"-">>)

BalanceOver(rows, targetColumn, rnd, maxClassSize, minorityClasses) ==
    IF Len(minorityClasses) = 0
    THEN NoBalance(rows, <<Warning("CLASS_BALANCE_INFO", "low", 0)>>, <<>>, FALSE)
    ELSE Balanced(BalanceMinorities(minorityClasses, rows, targetColumn,
                                    maxClassSize, rnd, <<>>))

BalanceBy(rows, targetColumn, rnd, classDistribution) ==
    BalanceOver(rows, targetColumn, rnd, MaxCount(classDistribution),
                MinorityClasses(classDistribution, MaxCount(classDistribution)))

\* balanceClasses(data, targetColumn, result): the rows it appends (it changes
\* no row it is given), the warnings and errors it records
balanceClasses(rows, targetColumn, rnd) ==
    IF balanceThrows(rows, targetColumn) THEN NoBalance(rows, <<>>, <<>>, TRUE)
    ELSE IF ~HasTarget(rows, targetColumn)
    THEN NoBalance(rows, <<Warning("CLASS_BALANCE_WARNING", "medium", 0)>>, <<>>, FALSE)
    ELSE IF AnyNullRow(rows)
    THEN NoBalance(rows, <<>>, <<Warning("CLASS_BALANCE_ERROR", "medium", 0)>>, FALSE)
    ELSE BalanceBy(rows, targetColumn, rnd, getClassDistribution(rows, targetColumn))

\* ------------------------------------------------------------------ inputs

MaxHead == 2
SmallRun == 3
BigRun == 20
MaxRewrites == 1
MaxAnswered == 3

Str_recieve_mail == S(<<"r","e","c","i","e","v","e"," ","m","a","i","l">>)
Str_good_morning == S(<<"g","o","o","d"," ","m","o","r","n","i","n","g">>)
Str_25 == S(<<"2","5">>)
Str_male == S(<<"m","a","l","e">>)
Str_Male == S(<<"M","a","l","e">>)
Str_female == S(<<"f","e","m","a","l","e">>)

Person(description, age, category) ==
    Row(<<Cell("description", description), Cell("age", age), Cell("category", category)>>)

\* the rows the datasets of the pipeline runs are made of
Vocabulary ==
    { Person(Str_recieve_mail, Str_25, Str_male),
      Person(Str_good_morning, EmptyString, Str_Male),
      Person(EmptyString, N(7), Str_female) }

EmptyRow == Row(<<>>)

\* the two records of the end-to-end scenario
Str_john_doe == S(<<"j","o","h","n"," ","d","o","e">>)
Str_john_invalid == S(<<"j","o","h","n","@","i","n","v","a","l","i","d">>)
Str_MALE == S(<<"M","A","L","E">>)
Str_jane_smith == S(<<"j","a","n","e"," ","s","m","i","t","h">>)
Str_jane_email == S(<<"j","a","n","e",".","s","m","i","t","h","@","e","m","a","i","l",".","c","o","m">>)
PersonOf(name, email, age, category) ==
    Row(<<Cell("name", name), Cell("email", email), Cell("age", age),
          Cell("category", category)>>)
JohnDoe == PersonOf(Str_john_doe, Str_john_invalid, EmptyString, Str_MALE)
JaneSmith == PersonOf(Str_jane_smith, Str_jane_email, Str_25, Str_female)
Scenario == <<JohnDoe, JaneSmith>>

\* a head of at most MaxHead rows, then nothing, a short run of one row or a
\* long run of another: long runs make columns categorical, short ones make
\* classes unbalanced
WellFormedInputs ==
    { head \o tail :
        head \in SeqsUpTo(Vocabulary, MaxHead),
        tail \in { <<>>,
                   Rep(Person(Str_good_morning, Str_25, Str_female), SmallRun),
                   Rep(Person(Str_good_morning, EmptyString, Str_Male), BigRun) } }

\* inputs with a null row or a row without columns
MalformedInputs ==
    { <<NullRow>>, <<EmptyRow>>, <<EmptyRow, NullRow>>,
      <<Person(Str_recieve_mail, Str_25, Str_male), NullRow>>,
      <<EmptyRow, Person(Str_recieve_mail, Str_25, Str_male), NullRow>> }

Inputs == WellFormedInputs \cup MalformedInputs \cup {Scenario}

\* an option is left out ("unset") or given as true or false; the first three
\* are each left out or false, or all three true
StageFlags ==
    [{"fixTypos", "normalizeLabels", "fillMissing"} -> {"unset", "false"}]
        \cup {[f \in {"fixTypos", "normalizeLabels", "fillMissing"} |-> "true"]}

Configs ==
    { [fixTypos |-> f["fixTypos"], normalizeLabels |-> f["normalizeLabels"],
       fillMissing |-> f["fillMissing"], balanceClasses |-> b, targetColumn |-> c] :
        f \in StageFlags, b \in {"unset", "true", "false"}, c \in {"", "category"} }

\* options = {}
NoOptions ==
    [fixTypos |-> "unset", normalizeLabels |-> "unset", fillMissing |-> "unset",
     balanceClasses |-> "unset", targetColumn |-> ""]

\* ------------------------------------------------------------------- state

VARIABLES
    heap,         \* the row objects, by reference
    data,         \* the caller's array (result.originalData): references
    input0,       \* what the rows held when processData was called
    options,      \* the options of the call
    pc,           \* where the call stands
    cleanedData,  \* result.cleanedData: references
    statistics,   \* result.statistics
    errors,       \* result.errors
    warnings,     \* result.warnings
    ran,          \* the stages run so far, with what each was given and returned
    count1,       \* the count a stand-alone stage call reported
    cancelRequested,  \* the caller's cancellation signal
    enrichment,   \* the enrichment calls of correctTextWithAI in flight
    reports       \* validationReport and augmentationReport of the enhanced processor

vars == <<heap, data, input0, options, pc, cleanedData, statistics, errors, warnings,
          ran, count1, cancelRequested, enrichment, reports>>

\* the variables the stages of processData never touch
outside == <<cancelRequested, enrichment, reports>>

NoReports == [validation |-> <<>>, augmentation |-> <<>>]

\* no call of correctTextWithAI is in progress
NoEnrichment == [column |-> "", batch |-> 0, items |-> <<>>]

Deref(ids) == [i \in 1..Len(ids) |-> heap[ids[i]]]

\* the heap after the rows ids refer to were given the contents rows
WriteBack(ids, rows) ==
    [h \in 1..Len(heap) |->
        IF \E i \in 1..Len(ids) : ids[i] = h
        THEN rows[CHOOSE i \in 1..Len(ids) : ids[i] = h]
        ELSE heap[h]]

NoStatistics == [own |-> NoStats, initial |-> NoStats, final |-> NoStats]

InitWith(rows, opts, start) ==
    /\ heap = rows
    /\ data = [i \in 1..Len(rows) |-> i]
    /\ input0 = rows
    /\ options = opts
    /\ pc = start
    /\ cleanedData = <<>>
    /\ statistics = NoStatistics
    /\ errors = <<>>
    /\ warnings = <<>>
    /\ ran = <<>>
    /\ count1 = 0
    /\ cancelRequested = FALSE
    /\ enrichment = NoEnrichment
    /\ reports = NoReports

Init == \E rows \in Inputs, opts \in Configs : InitWith(rows, opts, "call")

\* ------------------------------------------------------------ processData

fixTyposEnabled(opts) == opts.fixTypos # "false"
normalizeLabelsEnabled(opts) == opts.normalizeLabels # "false"
fillMissingEnabled(opts) == opts.fillMissing # "false"
balanceClassesEnabledAlways(opts) == TRUE
balanceClassesEnabled(opts) == opts.balanceClasses # "false" /\ opts.targetColumn # ""

HighError == [type |-> "PROCESSING_ERROR", severity |-> "high", count |-> 0]
CatchErrorTwice(errs) == Append(Append(errs, HighError), HighError)
CatchError(errs) == Append(errs, HighError)

\* statistics: this.generateStatistics(data): the fields of the statistics of
\* the input become the fields of result.statistics itself
InitialStatistics(stats) == [own |-> stats, initial |-> NoStats, final |-> NoStats]

Extend(smaller, set) == smaller \cup {p \cup {e} : p \in smaller, e \in set}

RECURSIVE SubsetsUpTo(_, _)
SubsetsUpTo(set, k) == IF k = 0 THEN {{}} ELSE Extend(SubsetsUpTo(set, k - 1), set)

\* the enrichment calls made for the first MaxAnswered rows
EligibleCalls(rows, textColumns) ==
    {p \in (1..Min(MaxAnswered, Len(rows))) \X {textColumns[k] : k \in 1..Len(textColumns)} :
        IsLongText(Get(rows[p[1]], p[2]))}

\* which enrichment calls are answered: at most MaxRewrites of them, among
\* the calls for the first MaxAnswered rows
AiChoices(rows) ==
    IF identifyTextThrows(rows) THEN {{}}
    ELSE SubsetsUpTo(EligibleCalls(rows, identifyTextColumns(rows)), MaxRewrites)

\* a stage whose warnings replace those of the stages before it
FinishOverwriting(stage, heapAfter, idsAfter, ws, es, next) ==
    /\ heap' = heapAfter
    /\ cleanedData' = idsAfter
    /\ warnings' = ws
    /\ errors' = errors \o es
    /\ ran' = Append(ran, [stage |-> stage, threw |-> FALSE,
                           given |-> Deref(cleanedData),
                           returned |-> [i \in 1..Len(idsAfter) |-> heapAfter[idsAfter[i]]]])
    /\ pc' = next
    /\ UNCHANGED <<data, input0, options, statistics, count1, outside>>

\* a stage returned: its rows are written through the references it was given
Finish(stage, heapAfter, idsAfter, ws, es, next) ==
    /\ heap' = heapAfter
    /\ cleanedData' = idsAfter
    /\ warnings' = warnings \o ws
    /\ errors' = errors \o es
    /\ ran' = Append(ran, [stage |-> stage, threw |-> FALSE,
                           given |-> Deref(cleanedData),
                           returned |-> [i \in 1..Len(idsAfter) |-> heapAfter[idsAfter[i]]]])
    /\ pc' = next
    /\ UNCHANGED <<data, input0, options, statistics, count1, outside>>

\* a stage threw: the assignment to result.cleanedData is not made and the
\* catch block of processData runs
Raise(stage) ==
    /\ errors' = CatchError(errors)
    /\ ran' = Append(ran, [stage |-> stage, threw |-> TRUE,
                           given |-> Deref(cleanedData), returned |-> Deref(cleanedData)])
    /\ pc' = "failed"
    /\ UNCHANGED <<heap, cleanedData, warnings, data, input0, options, statistics, count1,
                   outside>>

Skip(next) ==
    /\ pc' = next
    /\ UNCHANGED <<heap, data, input0, options, cleanedData, statistics, errors, warnings,
                   ran, count1, outside>>

\* a stage that writes through the rows it was given came back with r
Returned(stage, r, next) ==
    IF r.throws THEN Raise(stage)
    ELSE Finish(stage, WriteBack(cleanedData, r.rows), cleanedData, r.warnings, <<>>, next)

BalanceReturnedInFront(r) ==
    IF r.throws THEN Raise("balanceClasses")
    ELSE Finish("balanceClasses", heap \o r.added,
                [i \in 1..Len(r.added) |-> Len(heap) + i] \o cleanedData,
                r.warnings, r.errors, "finalStatistics")

\* balanceClasses came back with r: the synthetic rows are new objects
BalanceReturned(r) ==
    IF r.throws THEN Raise("balanceClasses")
    ELSE Finish("balanceClasses", heap \o r.added,
                cleanedData \o [i \in 1..Len(r.added) |-> Len(heap) + i],
                r.warnings, r.errors, "finalStatistics")

\* the call: the result object is built before the try block is entered
Call ==
    /\ pc = "call"
    /\ IF generateStatisticsThrows(Deref(data))
       THEN /\ pc' = "threw"
            /\ UNCHANGED <<cleanedData, statistics>>
       ELSE /\ pc' = "fixTypos"
            /\ cleanedData' = data
            /\ statistics' = InitialStatistics(generateStatistics(Deref(data)))
    /\ UNCHANGED <<heap, data, input0, options, errors, warnings, ran, count1, outside>>

FixTyposStage ==
    /\ pc = "fixTypos"
    /\ IF fixTyposEnabled(options)
       THEN \E ai \in AiChoices(Deref(cleanedData)) :
                Returned("fixTypos", fixTypos(Deref(cleanedData), ai), "normalizeLabels")
       ELSE Skip("normalizeLabels")

NormalizeLabelsStage ==
    /\ pc = "normalizeLabels"
    /\ IF normalizeLabelsEnabled(options)
       THEN Returned("normalizeLabels", normalizeLabels(Deref(cleanedData)), "fillMissing")
       ELSE Skip("fillMissing")

FillMissingStage ==
    /\ pc = "fillMissing"
    /\ IF fillMissingEnabled(options)
       THEN Returned("fillMissing", fillMissingValues(Deref(cleanedData)), "balanceClasses")
       ELSE Skip("balanceClasses")

BalanceClassesStage ==
    /\ pc = "balanceClasses"
    /\ IF balanceClassesEnabled(options)
       THEN \E rnd \in DrawKinds :
                BalanceReturned(balanceClasses(Deref(cleanedData), options.targetColumn, rnd))
       ELSE Skip("finalStatistics")

\* result.statistics.final = this.generateStatistics(result.cleanedData)
FinalStatistics ==
    /\ pc = "finalStatistics"
    /\ IF generateStatisticsThrows(Deref(cleanedData))
       THEN /\ errors' = CatchError(errors)
            /\ pc' = "failed"
            /\ UNCHANGED statistics
       ELSE /\ statistics' = [statistics EXCEPT !.final = generateStatistics(Deref(cleanedData))]
            /\ pc' = "done"
            /\ UNCHANGED errors
    /\ UNCHANGED <<heap, data, input0, options, cleanedData, warnings, ran, count1, outside>>

Next ==
    \/ Call
    \/ FixTyposStage
    \/ NormalizeLabelsStage
    \/ FillMissingStage
    \/ BalanceClassesStage
    \/ FinalStatistics

Spec == Init /\ [][Next]_vars

\* ------------------------------------------------- fillMissingValues alone

MaxCol == 5
MaxText == 3
MaxCatHead == 2
HalfRun == 11

Str_3 == S(<<"3">>)
Str_ab == S(<<"a","b">>)
Str_cd == S(<<"c","d">>)

\* a dataset of one column
OneColumn(values) == [i \in 1..Len(values) |-> Row(<<Cell("value", values[i])>>)]

\* columns of numbers and numerals with missing cells, in every order
NumericColumns == SeqsUpTo({N(1), N(2), Str_3, N(4), EmptyString}, MaxCol) \ {<<>>}

\* short columns of few distinct values: they are inferred text
TextColumns == SeqsUpTo({N(0), Str_ab, Str_cd, EmptyString, Null}, MaxText)

\* long columns of two values: they are inferred categorical
CategoricalColumns ==
    { head \o tail :
        head \in SeqsUpTo({Str_ab, Str_cd, EmptyString}, MaxCatHead),
        tail \in { Rep(Str_cd, 2 * HalfRun),
                   Rep(Str_ab, HalfRun) \o Rep(Str_cd, HalfRun),
                   Rep(Str_cd, HalfRun) \o Rep(Str_ab, HalfRun) } }

ImputeInputs ==
    {OneColumn(values) : values \in NumericColumns \cup TextColumns \cup CategoricalColumns}

InitImpute == \E rows \in ImputeInputs : InitWith(rows, NoOptions, "impute")

\* a call of a stage on the caller's rows came back with r
StageReturned(stage, r, next) ==
    /\ heap' = WriteBack(data, r.rows)
    /\ warnings' = warnings \o r.warnings
    /\ count1' = r.count
    /\ ran' = Append(ran, [stage |-> stage, threw |-> r.throws,
                           given |-> Deref(data), returned |-> r.rows])
    /\ pc' = IF r.throws THEN "threw" ELSE next
    /\ UNCHANGED <<data, input0, options, cleanedData, statistics, errors, outside>>

Impute ==
    /\ pc = "impute"
    /\ StageReturned("fillMissing", fillMissingValues(Deref(data)), "imputed")

SpecImpute == InitImpute /\ [][Impute]_vars

\* --------------------------------------------------- normalizeLabels twice

MaxLabelHead == 2
LabelRun == 30

Str_1 == S(<<"1">>)
Str__Male == S(<<" ","M","a","l","e">>)

LabelVocabulary == {Str_male, Str_Male, Str__Male, Str_female, N(1), Str_1, Null}

OneLabel(values) == [i \in 1..Len(values) |-> Row(<<Cell("category", values[i])>>)]

\* a head of labels, then a long run that makes the column categorical
LabelInputs ==
    { OneLabel(head \o tail) :
        head \in SeqsUpTo(LabelVocabulary, MaxLabelHead),
        tail \in { Rep(Str_Male, LabelRun),
                   Rep(Str_female, LabelRun),
                   Append(Rep(Str_female, LabelRun), Str_Male) } }

InitNormalize == \E rows \in LabelInputs : InitWith(rows, NoOptions, "normalize1")

Normalize1 ==
    /\ pc = "normalize1"
    /\ StageReturned("normalizeLabels", normalizeLabels(Deref(data)), "normalize2")

\* normalizeLabels on what the first call returned
Normalize2 ==
    /\ pc = "normalize2"
    /\ StageReturned("normalizeLabels", normalizeLabels(Deref(data)), "normalized")

NextNormalize ==
    \/ Normalize1
    \/ Normalize2

SpecNormalize == InitNormalize /\ [][NextNormalize]_vars

\* -------------------------------------------------------------- properties

\* ------------------------------------------------- a run that is cancelled

\* the positions at which a call of processData is over
Terminal == {"done", "failed", "threw"}

\* the cancellation signal of the specification, raised from outside while a
\* run is under way; no statement of processData reads it
RequestCancel ==
    /\ pc \notin Terminal
    /\ ~cancelRequested
    /\ cancelRequested' = TRUE
    /\ UNCHANGED <<heap, data, input0, options, pc, cleanedData, statistics, errors,
                   warnings, ran, count1, enrichment, reports>>

CancelInputs == {<<>>, Scenario, <<EmptyRow, NullRow>>}
InitCancel == \E rows \in CancelInputs, opts \in Configs : InitWith(rows, opts, "call")

NextCancel ==
    \/ Call
    \/ FixTyposStage
    \/ NormalizeLabelsStage
    \/ FillMissingStage
    \/ BalanceClassesStage
    \/ FinalStatistics
    \/ RequestCancel

SpecCancel == InitCancel /\ [][NextCancel]_vars

\* ------------------------------------------------ generateStatistics alone

\* datasets of records of one or two columns, the two in either order, of
\* strings, numbers and null
MaxStatRows == 3
StatRows ==
    {Row(<<Cell("x", Str_1)>>), Row(<<Cell("x", N(1))>>), Row(<<Cell("x", Null)>>),
     Row(<<Cell("x", Str_1), Cell("y", N(1))>>), Row(<<Cell("y", N(1)), Cell("x", Str_1)>>),
     Row(<<Cell("x", N(1)), Cell("y", N(1))>>), Row(<<Cell("x", Str_1), Cell("y", Null)>>),
     Row(<<Cell("x", Str_1), Cell("y", Str_1)>>)}
StatInputs == SeqsUpTo(StatRows, MaxStatRows)

\* processData at its first statement, statistics: this.generateStatistics(data)
InitStats == \E rows \in StatInputs : InitWith(rows, NoOptions, "call")

SpecStats == InitStats /\ [][Call]_vars

\* ------------------------------------------------- inferColumnType alone

\* one column of numbers, numerals, words and missing cells, in every order
MaxInfer == 5
InferValues == {N(1), Str_3, Str_ab, EmptyString}
InferInputs == {OneColumn(values) : values \in SeqsUpTo(InferValues, MaxInfer)}

\* processData at its first statement: the column types of the statistics
InitInfer == \E rows \in InferInputs : InitWith(rows, NoOptions, "call")

SpecInfer == InitInfer /\ [][Call]_vars

\* ---------------------------------------------- identifyTextColumns alone

\* one column of long texts, short texts and missing cells, in every order
MaxSample == 4
SampleValues == {Str_recieve_mail, Str_ab, EmptyString, Null}
SampleInputs == {OneColumn(values) : values \in SeqsUpTo(SampleValues, MaxSample)}

\* fixTypos at const textColumns = this.identifyTextColumns(data)
InitSample == \E rows \in SampleInputs : InitWith(rows, NoOptions, "identify")

IdentifyText ==
    /\ pc = "identify"
    /\ ran' = Append(ran, [stage |-> "identifyTextColumns", threw |-> FALSE,
                           given |-> Deref(data),
                           returned |-> identifyTextColumns(Deref(data))])
    /\ pc' = "identified"
    /\ UNCHANGED <<heap, data, input0, options, cleanedData, statistics, errors, warnings,
                   count1, outside>>

SpecSample == InitSample /\ [][IdentifyText]_vars

\* ------------------------------------------ fixTypos over two text columns

\* datasets of two columns of texts: a head of any rows, then nothing or a
\* run of rows without typos
MaxTypoHead == 2
TypoRun == 10
TwoTexts(first, second) == Row(<<Cell("first", first), Cell("second", second)>>)
TextValues == {Str_recieve_mail, Str_good_morning, Str_ab}
TypoRows == {TwoTexts(first, second) : first \in TextValues, second \in TextValues}
TypoInputs ==
    { head \o tail :
        head \in SeqsUpTo(TypoRows, MaxTypoHead),
        tail \in {<<>>, Rep(TwoTexts(Str_good_morning, Str_good_morning), TypoRun)} }

\* processData where it calls fixTypos
InitTypos ==
    \E rows \in TypoInputs :
        /\ heap = rows
        /\ data = [i \in 1..Len(rows) |-> i]
        /\ input0 = rows
        /\ options = NoOptions
        /\ pc = "fixTypos"
        /\ cleanedData = [i \in 1..Len(rows) |-> i]
        /\ statistics = InitialStatistics(generateStatistics(rows))
        /\ errors = <<>>
        /\ warnings = <<>>
        /\ ran = <<>>
        /\ count1 = 0
        /\ cancelRequested = FALSE
        /\ enrichment = NoEnrichment
        /\ reports = NoReports

\* every enrichment call that is made is answered
AllCalls(rows) ==
    (1..Len(rows)) \X {Keys(rows[1])[k] : k \in 1..Len(Keys(rows[1]))}

\* fixTypos with an enrichment service that answers every call
FixTyposAnswered ==
    /\ pc = "fixTypos"
    /\ IF Len(cleanedData) = 0
       THEN Returned("fixTypos", fixTypos(Deref(cleanedData), {}), "normalizeLabels")
       ELSE Returned("fixTypos", fixTypos(Deref(cleanedData), AllCalls(Deref(cleanedData))),
                     "normalizeLabels")

SpecTypos == InitTypos /\ [][FixTyposAnswered]_vars

\* ------------------------------------------------ EnhancedDataProcessor

\* the characters of the column names of the datasets
ColumnChars(key) ==
    CASE key = "name" -> <<"n","a","m","e">>
      [] key = "email" -> <<"e","m","a","i","l">>
      [] key = "age" -> <<"a","g","e">>
      [] key = "category" -> <<"c","a","t","e","g","o","r","y">>
      [] key = "description" -> <<"d","e","s","c","r","i","p","t","i","o","n">>
      [] key = "Label" -> <<"L","a","b","e","l">>
      [] key = "class_a" -> <<"c","l","a","s","s","_","a">>
      [] key = "class_b" -> <<"c","l","a","s","s","_","b">>
      [] key = "target" -> <<"t","a","r","g","e","t">>
      [] key = "result" -> <<"r","e","s","u","l","t">>
      [] key = "city" -> <<"c","i","t","y">>
      [] OTHER -> <<"v","a","l","u","e">>

\* String.prototype.includes
Includes(str, sub) ==
    \E i \in 1..(Len(str) - Len(sub) + 1) : SubSeq(str, i, i + Len(sub) - 1) = sub

\* key.toLowerCase().includes(word)
KeyIncludes(key, word) == Includes(toLowerCase(ColumnChars(key)), word)

Chars_age == <<"a","g","e">>
Chars_email == <<"e","m","a","i","l">>
Chars_name == <<"n","a","m","e">>
Chars_Male == <<"M","a","l","e">>
Chars_Female == <<"F","e","m","a","l","e">>
Str_Female == S(Chars_Female)
Str_unknown_email == S(<<"u","n","k","n","o","w","n","@","e","m","a","i","l",".","c","o","m">>)

\* cleaned[key].replace(/\s+/g, ' ').trim()
FixSpacing(str) == trim(CollapseSpaces(str, 1, <<>>))

IsCategoryKey(key) == KeyIncludes(key, <<"c","a","t","e","g","o","r","y">>) \/ KeyIncludes(key, <<"g","e","n","d","e","r">>)

\* val === 'male' || val === 'm', val === 'female' || val === 'f'
CategoryOf(str, val) ==
    IF val \in {<<"f","e","m","a","l","e">>, <<"f">>} THEN Chars_Female
    ELSE IF val \in {<<"m","a","l","e">>, <<"m">>} THEN Chars_Male
    ELSE str

\* a string cell after the spacing fix and the category rule
CleanString(key, str) ==
    IF IsCategoryKey(key) THEN CategoryOf(FixSpacing(str), toLowerCase(FixSpacing(str)))
    ELSE FixSpacing(str)

CleanText(key, v) == IF IsString(v) THEN S(CleanString(key, v.s)) ELSE v

\* !cleaned[key] || cleaned[key] === '': the age default, then the email one
FillDefault(key, v) ==
    IF Truthy(v) THEN v
    ELSE IF KeyIncludes(key, Chars_email) THEN Str_unknown_email
    ELSE IF KeyIncludes(key, Chars_age) THEN Str_25
    ELSE v

CleanCell(key, v) == FillDefault(key, CleanText(key, v))

\* the warnings one cell adds, in the order they are pushed
SpacingWarnings(v) ==
    IF IsString(v) /\ FixSpacing(v.s) # v.s
    THEN <<Warning("TEXT_CLEANED", "low", 0)>> ELSE <<>>
FillWarnings(key, v) ==
    IF Truthy(v) THEN <<>>
    ELSE (IF KeyIncludes(key, Chars_age)
          THEN <<Warning("MISSING_FILLED", "medium", 0)>> ELSE <<>>)
         \o (IF KeyIncludes(key, Chars_email)
             THEN <<Warning("MISSING_FILLED", "medium", 0)>> ELSE <<>>)
CellWarnings(key, v) == SpacingWarnings(v) \o FillWarnings(key, CleanText(key, v))

RECURSIVE Flatten(_)
Flatten(seqs) == IF seqs = <<>> THEN <<>> ELSE Head(seqs) \o Flatten(Tail(seqs))

\* const cleaned = { ...row } and the loop over its keys
CleanRow(row) ==
    Row([i \in 1..Len(row.cells) |->
            Cell(row.cells[i].k, CleanCell(row.cells[i].k, row.cells[i].v))])
RowWarnings(row) ==
    Flatten([i \in 1..Len(row.cells) |-> CellWarnings(row.cells[i].k, row.cells[i].v)])

\* parseInt(string): leading white space, an optional sign, then the longest
\* run of decimal digits; NaN when there is no digit
NotANumber == [nan |-> TRUE, val |-> 0]
Parsed(k) == [nan |-> FALSE, val |-> k]
DigitRun(str, from) ==
    {j \in from..Len(str) : \A i \in from..j : str[i] \in DigitSet}
ParseDigits(str, from) ==
    IF DigitRun(str, from) = {} THEN NotANumber
    ELSE Parsed(DigitsToInt(SubSeq(str, from, MaxOf(DigitRun(str, from))), 0))
Negated(p) == IF p.nan THEN p ELSE Parsed(0 - p.val)
ParseSigned(str) ==
    IF str # <<>> /\ Head(str) = "-" THEN Negated(ParseDigits(str, 2))
    ELSE IF str # <<>> /\ Head(str) = "+" THEN ParseDigits(str, 2)
    ELSE ParseDigits(str, 1)
parseInt(v) == ParseSigned(SubSeq(ToStr(v), SkipSpaces(ToStr(v), 1), Len(ToStr(v))))

\* String(integer)
SignedToStr(k) == IF k < 0 THEN <<"-">> \o IntToDigits(0 - k) ELSE IntToDigits(k)

\* /^[^\s@]+@[^\s@]+\.[^\s@]+$/.test(str)
AtSigns(str) == {i \in 1..Len(str) : str[i] = "@"}
DotsAfter(str, at) == {i \in (at + 2)..(Len(str) - 1) : str[i] = "."}
emailRegex(str) ==
    /\ \A i \in 1..Len(str) : ~IsSpace(str[i])
    /\ Cardinality(AtSigns(str)) = 1
    /\ MinOf(AtSigns(str)) > 1
    /\ DotsAfter(str, MinOf(AtSigns(str))) # {}

Issue(row, field, issue, severity) ==
    [row |-> row, field |-> field, issue |-> issue, severity |-> severity]

InvalidEmail(value) == Truthy(value) /\ ~emailRegex(ToStr(value))
InvalidAge(value) ==
    parseInt(value).nan \/ parseInt(value).val < 0 \/ parseInt(value).val > 120
NameTooShort(value) == Truthy(value) /\ IsString(value) /\ Len(value.s) < 2

\* the entry validateField returns, as a list: empty when it returns null
validateField(fieldName, value, rowIndex) ==
    IF KeyIncludes(fieldName, Chars_email) /\ InvalidEmail(value)
    THEN <<Issue(rowIndex, fieldName, "Invalid email format", "high")>>
    ELSE IF KeyIncludes(fieldName, Chars_age) /\ InvalidAge(value)
    THEN <<Issue(rowIndex, fieldName, "Invalid age value", "high")>>
    ELSE IF KeyIncludes(fieldName, Chars_name) /\ NameTooShort(value)
    THEN <<Issue(rowIndex, fieldName, "Name too short", "medium")>>
    ELSE <<>>

RowIssues(row, rowIndex) ==
    Flatten([i \in 1..Len(row.cells) |->
                validateField(row.cells[i].k, row.cells[i].v, rowIndex)])
ValidationReport(rows) == Flatten([i \in 1..Len(rows) |-> RowIssues(rows[i], i)])

\* nameVariations, emailDomains, names and descriptions, as far as the
\* indices 0..2 reach into them
nameVariations == <<<<"A","l","e","x">>, <<"S","a","m">>, <<"J","o","r","d","a","n">>>>
emailDomains == <<<<"g","m","a","i","l",".","c","o","m">>, <<"y","a","h","o","o",".","c","o","m">>, <<"o","u","t","l","o","o","k",".","c","o","m">>>>
names == <<<<"E","m","m","a"," ","J","o","h","n","s","o","n">>, <<"L","i","a","m"," ","B","r","o","w","n">>, <<"O","l","i","v","i","a"," ","D","a","v","i","s">>>>
descriptions ==
    <<<<"E","x","p","e","r","i","e","n","c","e","d"," ","p","r","o","f","e","s","s","i","o","n","a","l"," ","w","i","t","h"," ","s","t","r","o","n","g"," ","s","k","i","l","l","s",".">>,
      <<"C","r","e","a","t","i","v","e"," ","i","n","d","i","v","i","d","u","a","l"," ","w","i","t","h"," ","i","n","n","o","v","a","t","i","v","e"," ","i","d","e","a","s",".">>,
      <<"D","e","d","i","c","a","t","e","d"," ","t","e","a","m"," ","p","l","a","y","e","r"," ","w","i","t","h"," ","l","e","a","d","e","r","s","h","i","p"," ","q","u","a","l","i","t","i","e","s",".">>>>
Chars_Smith == <<"S","m","i","t","h">>
Chars_user == <<"u","s","e","r">>
Chars_synthetic == <<"s","y","n","t","h","e","t","i","c",".","c","o","m">>

\* str.replace(' ', '.'): the first space only
ReplaceFirstSpace(str) ==
    IF \E i \in 1..Len(str) : str[i] = " "
    THEN [i \in 1..Len(str) |->
             IF i = MinOf({j \in 1..Len(str) : str[j] = " "}) THEN "." ELSE str[i]]
    ELSE str

\* variation.name.split(' ')[1] || 'Smith'
SecondWord(str) ==
    IF Len(SplitOnSpace(str)) >= 2 /\ SplitOnSpace(str)[2] # <<>>
    THEN SplitOnSpace(str)[2] ELSE Chars_Smith

\* Math.floor(Math.random() * 10) - 5 and 20 + Math.floor(Math.random() * 40)
\* at the two ends of their ranges
AgeShift(draw) == IF draw = "lo" THEN 0 - 5 ELSE 4
SyntheticAge(draw) == IF draw = "lo" THEN 20 ELSE 59
SyntheticCategory(draw) == IF draw = "lo" THEN Str_Male ELSE Str_Female

\* variation.name.split of a name that is truthy and not a string
VariationThrows(record) == Truthy(Get(record, "name")) /\ ~IsString(Get(record, "name"))

VariedName(record, index) ==
    IF Truthy(Get(record, "name"))
    THEN Put(record, "name",
             S(nameVariations[index + 1] \o <<" ">> \o SecondWord(Get(record, "name").s)))
    ELSE record
Username(record) ==
    IF Truthy(Get(record, "name"))
    THEN toLowerCase(ReplaceFirstSpace(ToStr(Get(record, "name"))))
    ELSE Chars_user
VariedEmail(record, index) ==
    IF Truthy(Get(record, "email"))
    THEN Put(record, "email", S(Username(record) \o <<"@">> \o emailDomains[index + 1]))
    ELSE record
\* parseInt(variation.age) || 25
BaseAge(value) ==
    IF parseInt(value).nan \/ parseInt(value).val = 0 THEN 25 ELSE parseInt(value).val
VariedAge(record, draw) ==
    IF Truthy(Get(record, "age"))
    THEN Put(record, "age", S(SignedToStr(BaseAge(Get(record, "age")) + AgeShift(draw))))
    ELSE record
Variation(record, index, draw) ==
    VariedAge(VariedEmail(VariedName(record, index), index), draw)

\* createVariations(data.slice(0, 2))
createVariations(baseData, draw) ==
    [i \in 1..Len(baseData) |-> Variation(baseData[i], i - 1, draw)]
createVariationsThrows(baseData) ==
    \E i \in 1..Len(baseData) : VariationThrows(baseData[i])

SyntheticCount == 3
Sample(i, ageDraw, categoryDraw) ==
    Row(<<Cell("name", S(names[i])),
          Cell("email", S(toLowerCase(ReplaceFirstSpace(names[i])) \o <<"@">> \o Chars_synthetic)),
          Cell("age", S(IntToDigits(SyntheticAge(ageDraw)))),
          Cell("category", SyntheticCategory(categoryDraw)),
          Cell("description", S(descriptions[i]))>>)
\* generateSynthetic(data, 3)
generateSynthetic(ageDraw, categoryDraw) ==
    [i \in 1..SyntheticCount |-> Sample(i, ageDraw, categoryDraw)]

Chosen(option) == option = "true"
Report(method, samplesGenerated) == [method |-> method, samplesGenerated |-> samplesGenerated]

\* the records appended by augmentData and its report
VariationsOf(rows, opts, draw) ==
    IF Chosen(opts.balanceClasses)
    THEN createVariations(SubSeq(rows, 1, Min(2, Len(rows))), draw) ELSE <<>>
SyntheticOf(opts, ageDraw, categoryDraw) ==
    IF Chosen(opts.augmentData) THEN generateSynthetic(ageDraw, categoryDraw) ELSE <<>>
AugmentationReport(rows, opts) ==
    (IF Chosen(opts.balanceClasses)
     THEN <<Report("Class Balancing", Min(2, Len(rows)))>> ELSE <<>>)
    \o (IF Chosen(opts.augmentData)
        THEN <<Report("Synthetic Generation", SyntheticCount)>> ELSE <<>>)
augmentDataThrows(rows, opts) ==
    Chosen(opts.balanceClasses) /\ createVariationsThrows(SubSeq(rows, 1, Min(2, Len(rows))))

\* generateStats: {} for an empty dataset
NoStatsObject == [defined |-> FALSE, totalRows |-> 0, totalColumns |-> 0, missingValues |-> 0]
MissingCells(rows, columns) ==
    {<<i, c>> \in (1..Len(rows)) \X (1..Len(columns)) : ~Truthy(Get(rows[i], columns[c]))}
generateStats(rows) ==
    IF Len(rows) = 0 THEN NoStatsObject
    ELSE [defined |-> TRUE,
          totalRows |-> Len(rows),
          totalColumns |-> Len(Keys(rows[1])),
          missingValues |-> Cardinality(MissingCells(rows, Keys(rows[1])))]

\* the records the enhanced processor is run on
MaxRecords == 2
Str_bob == S(<<"b","o","b">>)
Str_thirty == S(<<"t","h","i","r","t","y">>)
Str_M == S(<<"M">>)
Str_al_spaced == S(<<" ","a","l"," "," ","b"," ">>)
Str_f == S(<<"f">>)
Str_typos == S(<<"A"," "," ","g","o","o","d"," "," "," ","p","e","r","s","o","n"," ","w","i","t","h"," "," ","m","a","n","y"," ","t","y","p","o","s",".">>)
Described(person, description) ==
    Row(Append(person.cells, Cell("description", description)))
Persons ==
    {JohnDoe, JaneSmith,
     PersonOf(Str_bob, Null, Str_thirty, Str_M),
     PersonOf(Str_al_spaced, EmptyString, N(130), Str_f),
     PersonOf(N(7), Str_jane_email, N(0), Str_Male)}
SameColumns(rows) == \A i, j \in 1..Len(rows) : Keys(rows[i]) = Keys(rows[j])
EnhancedInputs ==
    SeqsUpTo(Persons, MaxRecords)
    \cup {<<Described(JohnDoe, Str_typos)>>,
          <<Described(JohnDoe, Str_typos), Described(JaneSmith, Str_good_morning)>>}
OptionValues == {"unset", "true", "false"}
EnhancedOptions ==
    {[balanceClasses |-> b, augmentData |-> a] : b \in OptionValues, a \in OptionValues}

EmptyStatistics == [own |-> NoStats, initial |-> NoStatsObject, final |-> NoStatsObject]

InitEnhanced ==
    \E rows \in EnhancedInputs, opts \in EnhancedOptions :
        /\ heap = rows
        /\ data = [i \in 1..Len(rows) |-> i]
        /\ input0 = rows
        /\ options = opts
        /\ pc = "clean"
        /\ cleanedData = [i \in 1..Len(rows) |-> i]
        /\ statistics = EmptyStatistics
        /\ errors = <<>>
        /\ warnings = <<>>
        /\ ran = <<>>
        /\ count1 = 0
        /\ cancelRequested = FALSE
        /\ enrichment = NoEnrichment
        /\ reports = NoReports

\* the ids of k objects allocated after those of the heap
Fresh(k) == [i \in 1..k |-> Len(heap) + i]

\* Step 1: every row is copied and the copy is cleaned
CleanStep ==
    /\ pc = "clean"
    /\ heap' = heap \o [i \in 1..Len(cleanedData) |-> CleanRow(heap[cleanedData[i]])]
    /\ cleanedData' = Fresh(Len(cleanedData))
    /\ warnings' = warnings
                   \o Flatten([i \in 1..Len(cleanedData) |-> RowWarnings(heap[cleanedData[i]])])
    /\ pc' = "validate"
    /\ UNCHANGED <<data, input0, options, statistics, errors, ran, count1, outside>>

\* Step 2: the validation report
ValidateStep ==
    /\ pc = "validate"
    /\ reports' = [reports EXCEPT !.validation = @ \o ValidationReport(Deref(cleanedData))]
    /\ pc' = "augment"
    /\ UNCHANGED <<heap, data, input0, options, cleanedData, statistics, errors, warnings,
                   ran, count1, cancelRequested, enrichment>>

\* augmented.data: [...data, ...variations, ...synthetic]
Augmented(appended) ==
    /\ heap' = heap \o appended
    /\ cleanedData' = cleanedData \o Fresh(Len(appended))
    /\ reports' = [reports EXCEPT !.augmentation = AugmentationReport(Deref(cleanedData), options)]
    /\ pc' = "statistics"

\* Step 3: if (options.balanceClasses || options.augmentData)
AugmentStep ==
    /\ pc = "augment"
    /\ IF ~(Chosen(options.balanceClasses) \/ Chosen(options.augmentData))
       THEN /\ pc' = "statistics"
            /\ UNCHANGED <<heap, cleanedData, reports>>
       ELSE IF augmentDataThrows(Deref(cleanedData), options)
       THEN /\ pc' = "rejected"
            /\ UNCHANGED <<heap, cleanedData, reports>>
       ELSE \E draw \in DrawKinds, categoryDraw \in DrawKinds :
                Augmented(VariationsOf(Deref(cleanedData), options, draw)
                          \o SyntheticOf(options, draw, categoryDraw))
    /\ UNCHANGED <<data, input0, options, statistics, errors, warnings, ran, count1,
                   cancelRequested, enrichment>>

\* statistics: { initial: generateStats(data), final: generateStats(cleanedData) }
StatisticsStep ==
    /\ pc = "statistics"
    /\ statistics' = [own |-> NoStats,
                      initial |-> generateStats(Deref(data)),
                      final |-> generateStats(Deref(cleanedData))]
    /\ pc' = "done"
    /\ UNCHANGED <<heap, data, input0, options, cleanedData, errors, warnings, ran, count1,
                   outside>>

NextEnhanced ==
    \/ CleanStep
    \/ ValidateStep
    \/ AugmentStep
    \/ StatisticsStep

SpecEnhanced == InitEnhanced /\ [][NextEnhanced]_vars

\* ------------------------------------------------ correctTextWithAI alone

BATCH_SIZE == 10
MAX_RETRIES == 3
RETRY_DELAY == 1000

\* createBatches(data, BATCH_SIZE): batch k holds the rows of these indices
NumBatches(n) == (n + BATCH_SIZE - 1) \div BATCH_SIZE
BatchRows(n, k) == {i \in 1..n : (i - 1) \div BATCH_SIZE = k - 1}

\* what is known of the call made for one row: not yet reached ("idle"), no
\* call made ("skipped"), an attempt in flight ("calling"), between two
\* attempts ("waiting"), or settled ("ok", "failed"); calls and failures
\* count the attempts made and the attempts that threw, waits lists the
\* delays slept between them
Item(state, attempt, calls, failures, waits) ==
    [state |-> state, attempt |-> attempt, calls |-> calls, failures |-> failures,
     waits |-> waits]
IdleItem == Item("idle", 0, 0, 0, <<>>)

\* batch.map(async (item, index) => ...) up to its first await: the first
\* attempt of every long text of the batch is under way
Started(row, column) ==
    IF IsLongText(Get(row, column)) THEN Item("calling", 1, 1, 0, <<>>)
    ELSE Item("skipped", 0, 0, 0, <<>>)

\* the loop of retryOperation goes round again: attempt++, attempt <= MAX_RETRIES
AnotherAttemptAlways(attempt) == attempt <= MAX_RETRIES
AnotherAttempt(attempt) == attempt + 1 <= MAX_RETRIES

\* an attempt threw: sleep RETRY_DELAY * attempt and try again, or throw lastError
Thrown(item) ==
    IF AnotherAttempt(item.attempt)
    THEN [item EXCEPT !.state = "waiting", !.failures = @ + 1,
                      !.waits = Append(@, RETRY_DELAY * item.attempt)]
    ELSE [item EXCEPT !.state = "failed", !.failures = @ + 1]

\* the delay is over: the next attempt
Retried(item) == [item EXCEPT !.state = "calling", !.attempt = @ + 1, !.calls = @ + 1]

\* result.generated_text?.trim() || text
TrimmedReply(reply, text) ==
    IF IsString(reply) /\ trim(reply.s) # <<>> THEN S(trim(reply.s)) ELSE text

\* corrected && corrected !== text && corrected.length < text.length * 2
Takes(text, corrected) ==
    /\ Truthy(corrected)
    /\ corrected # text
    /\ Len(corrected.s) < Len(text.s) * 2

\* the generated_text of the answers of the service: none, a correction, a
\* text of more than twice the length
Str_receive_mail == S(<<"r","e","c","e","i","v","e"," ","m","a","i","l">>)
Replies == {Undefined, Str_receive_mail, Str_typos}

Settled(item) == item.state \in {"skipped", "ok", "failed"}

\* the datasets: EnrichRows rows of one column, long texts at some of the
\* rows 1, 2 and EnrichRows, short texts and numbers elsewhere
EnrichRows == 11
Described1(v) == Row(<<Cell("description", v)>>)
EnrichInput(longAt) ==
    [i \in 1..EnrichRows |->
        IF i \in longAt THEN Described1(Str_recieve_mail)
        ELSE IF i % 2 = 0 THEN Described1(Str_male) ELSE Described1(N(7))]
EnrichInputs == {EnrichInput(longAt) : longAt \in SUBSET {1, 2, EnrichRows}}

\* fixTypos at its call of correctTextWithAI(data, column)
InitEnrichWith(rows) ==
    /\ heap = rows
    /\ data = [i \in 1..Len(rows) |-> i]
    /\ input0 = rows
    /\ options = NoOptions
    /\ pc = "batch"
    /\ cleanedData = [i \in 1..Len(rows) |-> i]
    /\ statistics = InitialStatistics(generateStatistics(rows))
    /\ errors = <<>>
    /\ warnings = <<>>
    /\ ran = <<>>
    /\ count1 = 0
    /\ cancelRequested = FALSE
    /\ enrichment = [column |-> "description", batch |-> 1,
                     items |-> [i \in 1..Len(rows) |-> IdleItem]]
    /\ reports = NoReports

InitEnrich == \E rows \in EnrichInputs : InitEnrichWith(rows)

\* a dataset whose every row holds a long text: the first batch is full.  The
\* text is spelled right, so that no answer of the service changes it
FullInput == [i \in 1..EnrichRows |-> Described1(Str_receive_mail)]

\* the attempts that threw so far
Faults ==
    Cardinality({<<i, f>> \in (1..Len(enrichment.items)) \X (1..MAX_RETRIES) :
                    f <= enrichment.items[i].failures})

\* the service may throw at any attempt of a call for the sparse datasets,
\* and MaxFaults times in all for the full one
MaxFaults == 1
MayThrow == input0 \in EnrichInputs \/ Faults < MaxFaults

InitBatches == \E rows \in EnrichInputs \cup {FullInput} : InitEnrichWith(rows)

EnrichUnchanged ==
    UNCHANGED <<data, input0, options, cleanedData, statistics, errors, warnings, ran,
                count1, cancelRequested, reports>>

\* for (const batch of batches): the calls of the next batch are issued
StartBatch ==
    /\ pc = "batch"
    /\ enrichment.batch <= NumBatches(Len(data))
    /\ enrichment' =
           [enrichment EXCEPT !.items =
               [i \in 1..Len(data) |->
                   IF i \in BatchRows(Len(data), enrichment.batch)
                   THEN Started(heap[data[i]], enrichment.column)
                   ELSE enrichment.items[i]]]
    /\ pc' = "settling"
    /\ UNCHANGED heap
    /\ EnrichUnchanged

\* the service answers the call for row i; the answer is taken or not
Respond(i) ==
    /\ pc = "settling"
    /\ enrichment.items[i].state = "calling"
    /\ \E reply \in Replies :
           heap' = [heap EXCEPT ![data[i]] =
                       IF Takes(Get(@, enrichment.column),
                                TrimmedReply(reply, Get(@, enrichment.column)))
                       THEN Put(@, enrichment.column,
                                TrimmedReply(reply, Get(@, enrichment.column)))
                       ELSE @]
    /\ enrichment' = [enrichment EXCEPT !.items[i].state = "ok"]
    /\ UNCHANGED pc
    /\ EnrichUnchanged

\* the call for row i throws
Fail(i) ==
    /\ pc = "settling"
    /\ enrichment.items[i].state = "calling"
    /\ MayThrow
    /\ enrichment' = [enrichment EXCEPT !.items[i] = Thrown(@)]
    /\ UNCHANGED <<pc, heap>>
    /\ EnrichUnchanged

\* the timer of this.delay(RETRY_DELAY * attempt) fires
DelayOver(i) ==
    /\ pc = "settling"
    /\ enrichment.items[i].state = "waiting"
    /\ enrichment' = [enrichment EXCEPT !.items[i] = Retried(@)]
    /\ UNCHANGED <<pc, heap>>
    /\ EnrichUnchanged

\* await Promise.allSettled(promises) resumes
AllSettledEarly ==
    /\ pc = "settling"
    /\ pc' = "pause"
    /\ UNCHANGED <<heap, enrichment>>
    /\ EnrichUnchanged
AllSettled ==
    /\ pc = "settling"
    /\ \A i \in BatchRows(Len(data), enrichment.batch) : Settled(enrichment.items[i])
    /\ pc' = "pause"
    /\ UNCHANGED <<heap, enrichment>>
    /\ EnrichUnchanged

\* await this.delay(200) resumes: on to the next batch
PauseOver ==
    /\ pc = "pause"
    /\ enrichment' = [enrichment EXCEPT !.batch = @ + 1]
    /\ pc' = "batch"
    /\ UNCHANGED heap
    /\ EnrichUnchanged

\* no batch is left: correctTextWithAI returns
EnrichReturn ==
    /\ pc = "batch"
    /\ enrichment.batch > NumBatches(Len(data))
    /\ pc' = "returned"
    /\ UNCHANGED <<heap, enrichment>>
    /\ EnrichUnchanged

\* the steps the program takes by itself, with the timers of the event loop
ProgramStep ==
    \/ StartBatch
    \/ \E i \in 1..Len(data) : DelayOver(i)
    \/ AllSettled
    \/ PauseOver
    \/ EnrichReturn

\* the steps of the enrichment service
ServiceStep ==
    \/ \E i \in 1..Len(data) : Respond(i)
    \/ \E i \in 1..Len(data) : Fail(i)

NextEnrich ==
    \/ StartBatch
    \/ \E i \in 1..Len(data) : Respond(i)
    \/ \E i \in 1..Len(data) : Fail(i)
    \/ \E i \in 1..Len(data) : DelayOver(i)
    \/ AllSettled
    \/ PauseOver
    \/ EnrichReturn

SpecEnrich == InitEnrich /\ [][NextEnrich]_vars

\* the same steps, over the sparse datasets and the full one
SpecBatches == InitBatches /\ [][NextEnrich]_vars

\* the event loop runs every continuation and timer that is ready; nothing
\* makes the service answer
FairSpecEnrich == SpecEnrich /\ WF_vars(ProgramStep)

\* ------------------------------------------------------ detectTargetColumn

targetCandidates ==
    <<<<"l","a","b","e","l">>, <<"c","l","a","s","s">>, <<"c","a","t","e","g","o","r","y">>,
      <<"t","a","r","g","e","t">>, <<"o","u","t","c","o","m","e">>, <<"r","e","s","u","l","t">>>>

\* no column: undefined
NoColumn == ""

\* col.toLowerCase().includes(candidate)
Matches(column, candidate) == KeyIncludes(column, targetCandidates[candidate])

\* columns.find(...) for one candidate: the first column that matches it
FindColumn(columns, candidate) ==
    columns[MinOf({c \in 1..Len(columns) : Matches(columns[c], candidate)})]

\* the candidates some column matches
FoundCandidates(columns) ==
    {k \in 1..Len(targetCandidates) : \E c \in 1..Len(columns) : Matches(columns[c], k)}

\* the first column, in column order, that matches any candidate
FirstNamedColumn(columns) ==
    columns[MinOf({c \in 1..Len(columns) :
                      \E k \in 1..Len(targetCandidates) : Matches(columns[c], k)})]
\* for (const candidate of targetCandidates): the first candidate found wins
NamedColumn(columns) == FindColumn(columns, MinOf(FoundCandidates(columns)))

\* data.map(row => row[column]).filter(v => v != null), new Set(values)
NonNullValues(rows, column) == SelectSeq(Column(rows, column), LAMBDA v : ~IsNullish(v))
UniqueCount(values) == Cardinality({values[i] : i \in 1..Len(values)})
\* uniqueRatio < 0.1 && uniqueValues.size > 1 && uniqueValues.size < 10
LooksCategorical(values) ==
    /\ 10 * UniqueCount(values) < Len(values)
    /\ UniqueCount(values) > 1
    /\ UniqueCount(values) < 10
CategoricalCandidates(rows, columns) ==
    {c \in 1..Len(columns) : LooksCategorical(NonNullValues(rows, columns[c]))}

detectTargetColumn(rows) ==
    IF Len(rows) = 0 THEN NoColumn
    ELSE IF FoundCandidates(Keys(rows[1])) # {} THEN NamedColumn(Keys(rows[1]))
    ELSE IF CategoricalCandidates(rows, Keys(rows[1])) # {}
         THEN Keys(rows[1])[MinOf(CategoricalCandidates(rows, Keys(rows[1])))]
    ELSE NoColumn

\* the processing options startProcessing builds
processingOptions(targetColumn) ==
    [fixTypos |-> "true", normalizeLabels |-> "true", fillMissing |-> "true",
     balanceClasses |-> IF targetColumn # NoColumn THEN "true" ELSE "false",
     targetColumn |-> targetColumn]

\* datasets of DetectRows rows of two columns; a column holds a different
\* value in every row, two values in turn, one value, or two values and null
DetectRows == 22
ColumnLists ==
    { <<"city", "Label">>, <<"category", "Label">>, <<"class_a", "class_b">>,
      <<"result", "target">>, <<"city", "value">>, <<"value", "city">>,
      <<"city", "category">>, <<"age", "name">> }
Patterns == {"varied", "binary", "constant", "sparse"}
PatternValue(pattern, i) ==
    CASE pattern = "varied" -> N(i)
      [] pattern = "binary" -> IF i % 2 = 0 THEN Str_ab ELSE Str_cd
      [] pattern = "constant" -> Str_ab
      [] pattern = "tens" -> N(i % 10)
      [] pattern = "nines" -> N(i % 9)
      [] OTHER -> IF i = 1 THEN Str_ab ELSE IF i = 2 THEN Str_cd ELSE Null
DetectInput(columns, first, second, rows) ==
    [i \in 1..rows |->
        Row(<<Cell(columns[1], PatternValue(first, i)),
              Cell(columns[2], PatternValue(second, i))>>)]
\* and one of ManyRows rows whose columns hold ten and nine values in turn
ManyRows == 101
DetectInputs ==
    {<<>>, DetectInput(<<"value", "city">>, "tens", "nines", ManyRows)}
    \cup {DetectInput(columns, first, second, DetectRows) :
             columns \in ColumnLists, first \in Patterns, second \in Patterns}

InitDetect == \E rows \in DetectInputs : InitWith(rows, NoOptions, "start")

\* startProcessing up to the request it sends
StartProcessing ==
    /\ pc = "start"
    /\ options' = processingOptions(detectTargetColumn(Deref(data)))
    /\ pc' = "call"
    /\ UNCHANGED <<heap, data, input0, cleanedData, statistics, errors, warnings, ran,
                   count1, outside>>

SpecDetect == InitDetect /\ [][StartProcessing]_vars

\* --------------------------------------------------- balanceClasses alone

MaxClassHead == 2
ClassRun == 5

Str_new_york_city == S(<<"n","e","w"," ","y","o","r","k"," ","c","i","t","y">>)
Str_na == S(<<"n","a">>)

\* class labels: a word, several words, numbers, missing markers
ClassLabels == {Str_male, Str_new_york_city, N(1), N(0), Str_na, EmptyString, Null}

Labelled(label) == Row(<<Cell("category", label), Cell("age", Str_25)>>)
Unlabelled == Row(<<Cell("age", Str_25)>>)

\* a head of labels, then nothing or a run of one class; and datasets whose
\* records have no target column
BalanceInputs ==
    { [i \in 1..Len(head) |-> Labelled(head[i])] \o tail :
        head \in SeqsUpTo(ClassLabels, MaxClassHead),
        tail \in {<<>>, Rep(Labelled(Str_female), ClassRun)} }
      \cup {<<Unlabelled>>, <<Unlabelled, Unlabelled>>}

OnlyBalance ==
    [fixTypos |-> "false", normalizeLabels |-> "false", fillMissing |-> "false",
     balanceClasses |-> "true", targetColumn |-> "category"]

\* processData where it reaches its fourth step with the first three
\* switched off: cleanedData still is [...data]
InitBalance ==
    \E rows \in BalanceInputs :
        /\ heap = rows
        /\ data = [i \in 1..Len(rows) |-> i]
        /\ input0 = rows
        /\ options = OnlyBalance
        /\ pc = "balanceClasses"
        /\ cleanedData = [i \in 1..Len(rows) |-> i]
        /\ statistics = InitialStatistics(generateStatistics(rows))
        /\ errors = <<>>
        /\ warnings = <<>>
        /\ ran = <<>>
        /\ count1 = 0
        /\ cancelRequested = FALSE
        /\ enrichment = NoEnrichment
        /\ reports = NoReports

SpecBalance == InitBalance /\ [][BalanceClassesStage]_vars

StageOrder == <<"fixTypos", "normalizeLabels", "fillMissing", "balanceClasses">>
StageIndex(stage) == CHOOSE k \in 1..Len(StageOrder) : StageOrder[k] = stage
HasRun(stage) == \E i \in 1..Len(ran) : ran[i].stage = stage

\* the stage is switched off by the options of the call
SwitchedOff(stage) ==
    CASE stage = "fixTypos" -> options.fixTypos = "false"
      [] stage = "normalizeLabels" -> options.normalizeLabels = "false"
      [] stage = "fillMissing" -> options.fillMissing = "false"
      [] OTHER -> options.balanceClasses = "false" \/ options.targetColumn = ""

HighErrors == Cardinality({i \in 1..Len(errors) : errors[i].severity = "high"})

\* C1: after a run every record of the caller's input dataset holds exactly
\* the field values it held before the call.
C1_InputNeverMutated == pc \in {"done", "failed"} => Deref(data) = input0

C3_NeverThrows ==
    /\ pc # "threw"
    /\ pc \in {"done", "failed"} => (pc = "failed" <=> HighErrors > 0)

\* C4: when a stage raises an exception that escapes it, exactly one error of
\* severity high is recorded, no later stage runs, and cleanedData is what
\* the last stage that finished returned (the input when none did).
C4_StageFailure ==
    \A i \in 1..Len(ran) :
        ran[i].threw =>
            /\ i = Len(ran)
            /\ pc = "failed"
            /\ HighErrors = 1
            /\ Deref(cleanedData) = IF i = 1 THEN input0 ELSE ran[i - 1].returned

\* three stages finished and the fourth raised
C4_Witness ==
    /\ pc = "failed"
    /\ Len(ran) = 4
    /\ ran[4].threw
    /\ ~ran[3].threw

\* C5: a returned result has statistics.initial equal to the statistics of
\* the input dataset and, on success, statistics.final equal to the
\* statistics of the returned cleanedData.
C5_InitialAndFinal ==
    pc \in {"done", "failed"} =>
        /\ statistics.initial = generateStatistics(input0)
        /\ pc = "done" => statistics.final = generateStatistics(Deref(cleanedData))

\* C6: fixTypos, normalizeLabels and fillMissing run unless set to false;
\* balanceClasses runs only when balanceClasses is true and targetColumn is
\* not empty; a call that leaves balanceClasses out adds no synthetic record.
C6_Defaults ==
    /\ pc = "done" =>
           \A k \in 1..3 : SwitchedOff(StageOrder[k]) \/ HasRun(StageOrder[k])
    /\ HasRun("balanceClasses") =>
           options.balanceClasses = "true" /\ options.targetColumn # ""
    /\ (options.balanceClasses = "unset" /\ pc \in {"done", "failed"}) =>
           Len(cleanedData) = Len(data)

InColumn == Column(input0, "value")
OutColumn == Column(Deref(data), "value")

\* C7: after fillMissingValues no cell is missing, except that a column whose
\* values were all missing holds "Unknown" in every cell.
C7_ImputerTotality ==
    pc = "imputed" =>
        IF \A i \in 1..Len(InColumn) : isMissing(InColumn[i])
        THEN \A i \in 1..Len(OutColumn) : OutColumn[i] = Unknown
        ELSE \A i \in 1..Len(OutColumn) : ~isMissing(OutColumn[i])

\* the k-th smallest of the numbers, by counting
KthSmallest(numbers, k) ==
    CHOOSE x \in {numbers[i] : i \in 1..Len(numbers)} :
        /\ Cardinality({i \in 1..Len(numbers) : NumLess(numbers[i], x)}) < k
        /\ k <= Cardinality({i \in 1..Len(numbers) : ~NumLess(x, numbers[i])})

MedianOf(numbers) ==
    IF Len(numbers) % 2 = 1
    THEN KthSmallest(numbers, (Len(numbers) \div 2) + 1)
    ELSE NumHalf(NumAdd(KthSmallest(numbers, Len(numbers) \div 2),
                        KthSmallest(numbers, (Len(numbers) \div 2) + 1)))

\* the numbers 1, 2, 3 and 4 once each, in any order
OneToFour(numbers) ==
    Len(numbers) = 4 /\ \A k \in 1..4 : Count(numbers, N(k)) = 1

\* C8: in a column inferred numeric, every missing cell is filled with the
\* median of the numbers parsed from the non-missing values, whatever the
\* order of the rows: the middle one of them when their count is odd, the
\* average of the two middle ones when it is even, 2.5 for 1, 2, 3 and 4.
C8_MedianFill ==
    (pc = "imputed" /\ inferColumnType(InColumn) = "numeric") =>
        \A i \in 1..Len(InColumn) :
            isMissing(InColumn[i]) =>
                /\ OutColumn[i] = MedianOf(ParsedNumbers(NonMissing(InColumn)))
                /\ OneToFour(ParsedNumbers(NonMissing(InColumn))) => OutColumn[i] = Q(5, 2)

\* 4, missing, 1, "3", 2 was filled with 2.5
C8_Witness ==
    /\ pc = "imputed"
    /\ InColumn = <<N(4), EmptyString, N(1), Str_3, N(2)>>
    /\ OutColumn = <<N(4), Q(5, 2), N(1), Str_3, N(2)>>

FirstIndex(values, v) == MinOf({i \in 1..Len(values) : values[i] = v})

\* the value met most often, the first met of those met equally often
ModeOf(values) ==
    CHOOSE v \in {values[i] : i \in 1..Len(values)} :
        \A w \in {values[i] : i \in 1..Len(values)} :
            \/ Count(values, w) < Count(values, v)
            \/ Count(values, w) = Count(values, v) /\ FirstIndex(values, v) <= FirstIndex(values, w)

\* C9: in a column inferred categorical or text that has a non-missing value,
\* every missing cell is filled with the non-missing value that occurs most
\* often, the first in row order among those that occur most often.
C9_ModeFill ==
    (/\ pc = "imputed"
     /\ inferColumnType(InColumn) \in {"categorical", "text"}
     /\ NonMissing(InColumn) # <<>>) =>
        \A i \in 1..Len(InColumn) :
            isMissing(InColumn[i]) => OutColumn[i] = ModeOf(NonMissing(InColumn))

\* C10: normalizeLabels on what normalizeLabels returned changes no cell and
\* counts 0 normalizations.
C10_Idempotent ==
    pc = "normalized" => ran[2].returned = ran[2].given /\ count1 = 0

\* the first call changed labels, the second found the column categorical
\* still, changed nothing and counted 0
C10_Witness ==
    /\ pc = "normalized"
    /\ ran[1].returned # ran[1].given
    /\ Len(warnings) = 2
    /\ ran[2].returned = ran[2].given
    /\ count1 = 0

LabelsIn == Column(ran[1].given, "category")
LabelsOut == Column(ran[1].returned, "category")

\* the cells of the column that fall in the group of v
GroupOf(values, v) ==
    SelectSeq(values, LAMBDA w : ~IsNullish(w) /\ GroupKey(w) = GroupKey(v))

\* C11: in a categorical column every value of a group with more than one
\* distinct literal is replaced by the literal of the group that occurs in
\* the most rows, the first met in column order among those that occur in
\* equally many; a value of a group with one literal is kept.
C11_CanonicalMostFrequent ==
    (/\ Len(ran) >= 1
     /\ ~ran[1].threw
     /\ IsCategoricalColumn(ran[1].given, "category")) =>
        \A i \in 1..Len(LabelsIn) :
            ~IsNullish(LabelsIn[i]) => LabelsOut[i] = ModeOf(GroupOf(LabelsIn, LabelsIn[i]))

\* C12: no stage removes or reorders records: fixTypos, normalizeLabels and
\* fillMissingValues return as many records as they were given, balanceClasses
\* returns the records it was given followed by the synthetic ones, and
\* record i of cleanedData is record i of the input for every i below the
\* input length.
C12_RecordsKept ==
    /\ \A k \in 1..Len(ran) :
           ~ran[k].threw =>
               IF ran[k].stage = "balanceClasses"
               THEN /\ Len(ran[k].returned) >= Len(ran[k].given)
                    /\ SubSeq(ran[k].returned, 1, Len(ran[k].given)) = ran[k].given
               ELSE Len(ran[k].returned) = Len(ran[k].given)
    /\ pc \notin {"call", "threw"} =>
           /\ Len(cleanedData) >= Len(data)
           /\ \A i \in 1..Len(data) : cleanedData[i] = data[i]

\* every stage ran, the first three rewrote cells and the balancer appended
\* synthetic records
C12_Witness ==
    /\ pc = "done"
    /\ Len(ran) = 4
    /\ ran[1].returned # ran[1].given
    /\ ran[3].returned # ran[3].given
    /\ Len(cleanedData) > Len(data)

TargetIn == Column(ran[1].given, "category")
TargetOut == Column(ran[1].returned, "category")

\* the records whose target value stringifies to the class name
ClassSize(values, name) == Cardinality({i \in 1..Len(values) : ToStr(values[i]) = name})
LargestClass(values) ==
    MaxOf({ClassSize(values, ToStr(values[i])) : i \in 1..Len(values)})

\* C13: after balanceClasses on a target column that has a non-missing
\* value, every class whose count was below 0.8 * maxSize has at least
\* floor(0.8 * maxSize) records in the output, whatever its label.
C13_MinorityRaised ==
    (/\ pc = "finalStatistics"
     /\ NonMissing(TargetIn) # <<>>) =>
        \A i \in 1..Len(TargetIn) :
            10 * ClassSize(TargetIn, ToStr(TargetIn[i])) < 8 * LargestClass(TargetIn) =>
                ClassSize(TargetOut, ToStr(TargetIn[i])) >= (8 * LargestClass(TargetIn)) \div 10

\* balanceClasses gave the dataset back as it was, with one warning of
\* severity medium
GaveUp ==
    /\ ran[1].returned = ran[1].given
    /\ Len(warnings) = 1
    /\ warnings[1].severity = "medium"

\* C14: balanceClasses returns the dataset unchanged with one warning of
\* severity medium exactly when the target column does not exist or has no
\* non-missing value; with a non-missing value, the number 0 included,
\* balancing proceeds.
C14_BalancePrecondition ==
    pc = "finalStatistics" => (GaveUp <=> NonMissing(TargetIn) = <<>>)

\* the column names of a record, as a set
ColumnSet(row) == {row.cells[i].k : i \in 1..Len(row.cells)}

\* C15: after any run every record of cleanedData, the synthetic records
\* appended by class balancing or augmentation included, has exactly the set
\* of column names of the records of the input dataset.
C15_SchemaKept ==
    pc = "done" =>
        \A i \in 1..Len(cleanedData), j \in 1..Len(input0) :
            ColumnSet(heap[cleanedData[i]]) = ColumnSet(input0[j])

\* the records of the input, as a set: two records are the same element
\* exactly when they have the same columns in the same order with the same
\* values
DistinctRecords == {input0[i] : i \in 1..Len(input0)}

\* C16: duplicateRows of the statistics of a dataset is the number of its
\* records minus the number of its distinct records; N identical records
\* give N - 1.
C16_DuplicateRows ==
    pc = "fixTypos" =>
        statistics.own.duplicateRows = Len(input0) - Cardinality(DistinctRecords)

\* three identical records were counted as two duplicates
C16_Witness ==
    /\ pc = "fixTypos"
    /\ Len(input0) = 3
    /\ Cardinality(DistinctRecords) = 1
    /\ statistics.own.duplicateRows = 2

\* the scenario was run with every stage switched on and has returned
ScenarioRan ==
    /\ input0 = Scenario
    /\ options.fixTypos = "true" /\ options.normalizeLabels = "true"
    /\ options.fillMissing = "true" /\ options.balanceClasses = "true"
    /\ options.targetColumn = "category"
    /\ pc = "done"

\* C17: for the two records of the end-to-end scenario, all stages enabled
\* and targetColumn = category, the result has exactly two records, the age of
\* the first filled with 25, the categories "Male" and "Female",
\* statistics.initial.missingValues = 1 and statistics.final.missingValues = 0.
C17_Scenario ==
    ScenarioRan =>
        /\ Len(cleanedData) = 2
        /\ ToStr(Get(heap[cleanedData[1]], "age")) = Str_25.s
        /\ Get(heap[cleanedData[1]], "category") = Str_Male
        /\ Get(heap[cleanedData[2]], "category") = Str_Female
        /\ statistics.initial.defined /\ statistics.initial.missingValues = 1
        /\ statistics.final.defined /\ statistics.final.missingValues = 0

\* C18: once the cancellation signal is raised the run starts no further
\* stage: its next step is to return the partial result with the terminal
\* status Cancelled.
AtStageBoundary == \E k \in 1..Len(StageOrder) : StageOrder[k] = pc
C18_Cancellation ==
    [][(cancelRequested /\ AtStageBoundary) => pc' = "cancelled"]_vars

\* the text of row i as the run was given it, and as it is now
TextBefore(i) == Get(input0[i], enrichment.column)
TextNow(i) == Get(heap[data[i]], enrichment.column)

\* C19: retryOperation makes at most MAX_RETRIES = 3 attempts; the first
\* attempt that succeeds ends it (as many attempts as failures, plus one);
\* after the third failure in a row it throws, which leaves that one value as
\* it was and no other call failed or unsettled.
C19_BoundedRetries ==
    pc \in {"settling", "pause", "batch", "returned"} =>
        \A i \in 1..Len(enrichment.items) :
            /\ enrichment.items[i].calls <= MAX_RETRIES
            /\ enrichment.items[i].state = "ok" =>
                   enrichment.items[i].calls = enrichment.items[i].failures + 1
            /\ enrichment.items[i].state = "failed" =>
                   /\ enrichment.items[i].calls = MAX_RETRIES
                   /\ enrichment.items[i].failures = MAX_RETRIES
                   /\ TextNow(i) = TextBefore(i)
            /\ pc = "returned" => Settled(enrichment.items[i])

\* the call for the first row failed three times, the call for the second
\* succeeded at its second attempt and rewrote its text, and the run returned
C19_Witness ==
    /\ pc = "returned"
    /\ enrichment.items[1].state = "failed" /\ enrichment.items[1].calls = 3
    /\ enrichment.items[2].state = "ok" /\ enrichment.items[2].calls = 2
    /\ TextNow(2) = Str_receive_mail

\* C20: every enrichment call is bounded by a timeout, so a run always
\* terminates: correctTextWithAI eventually returns.
C20_Terminates == <>(pc = "returned")

\* the one column of the input, its non-missing values, and those of them
\* that parse as a number
InputColumn == Column(input0, "value")
PresentValues == NonMissing(InputColumn)
NumericValues == SelectSeq(PresentValues, LAMBDA v : ~IsNaNNumber(v))
InferredType == statistics.own.columnTypes[1][2]

\* C21: a column with a non-missing value is inferred numeric exactly when at
\* least 80% of its non-missing values parse as a number; four of five do.
C21_NumericThreshold ==
    (pc = "fixTypos" /\ Len(input0) > 0 /\ Len(PresentValues) > 0) =>
        (InferredType = "numeric" <=> 10 * Len(NumericValues) >= 8 * Len(PresentValues))

\* the rows of the sample whose value is present, and those holding a string
\* of more than 10 characters
PresentInSample == {i \in 1..Min(100, Len(input0)) : ~isMissing(Get(input0[i], "value"))}
LongInSample == {i \in 1..Min(100, Len(input0)) : IsLongText(Get(input0[i], "value"))}
Selected == \E k \in 1..Len(ran[1].returned) : ran[1].returned[k] = "value"

\* C22: identifyTextColumns selects a column exactly when more than half of
\* the sampled rows whose value is present hold a string longer than 10
\* characters; rows with a missing value do not count.
C22_TextColumns ==
    (pc = "identified" /\ Len(input0) > 0) =>
        (Selected <=> 2 * Cardinality(LongInSample) > Cardinality(PresentInSample))

\* the local corrections fixTypos makes in one column of the rows it was given
OwnCorrections(column) ==
    Cardinality({i \in 1..Len(input0) :
        CorrectLocal(Get(input0[i], column).s) # Get(input0[i], column).s})
\* the column went through the enrichment service: a value of it is the reply
Enriched(column) ==
    \E i \in 1..Len(cleanedData) : Get(heap[cleanedData[i]], column) = AiReply

\* C23: a text column is sent through the enrichment capability exactly when
\* the local corrections made in that column are below 10% of the rows,
\* whatever was corrected in the text columns before it.
C23_PerColumnDecision ==
    pc = "normalizeLabels" =>
        \A k \in 1..Len(identifyTextColumns(input0)) :
            Enriched(identifyTextColumns(input0)[k])
                <=> 10 * OwnCorrections(identifyTextColumns(input0)[k]) < Len(input0)

\* the rows whose enrichment call failed after its retries
FailedItems == {i \in 1..Len(enrichment.items) : enrichment.items[i].state = "failed"}

\* C24: a value whose enrichment call failed keeps its text, one warning per
\* failure is appended to the warnings of the run, every other value of the
\* batch and of the later batches is still processed and the stage does not
\* raise.
C24_FailureIsolated ==
    pc \in {"settling", "pause", "batch", "returned"} =>
        /\ \A i \in FailedItems : TextNow(i) = TextBefore(i)
        /\ Len(warnings) = Cardinality(FailedItems)
        /\ pc = "returned" => \A i \in 1..Len(enrichment.items) : Settled(enrichment.items[i])

\* the class names of the target column and whether one of them is a minority
ClassesIn == {ToStr(TargetIn[i]) : i \in 1..Len(TargetIn)}
SomeMinority ==
    \E name \in ClassesIn : 10 * ClassSize(TargetIn, name) < 8 * LargestClass(TargetIn)
Appended == Len(ran[1].returned) - Len(ran[1].given)

\* C25: a run of balanceClasses whose precondition holds appends exactly one
\* summary entry: CLASS_BALANCE_INFO with the dataset unchanged when no class
\* is below 0.8 * maxSize, otherwise CLASS_BALANCE_COMPLETE with the number
\* of synthetic records appended; two classes of equal size get none.
C25_OneSummary ==
    (pc = "finalStatistics" /\ NonMissing(TargetIn) # <<>>) =>
        /\ Len(warnings) = 1
        /\ errors = <<>>
        /\ IF SomeMinority
           THEN warnings[1].type = "CLASS_BALANCE_COMPLETE" /\ warnings[1].count = Appended
           ELSE warnings[1].type = "CLASS_BALANCE_INFO" /\ ran[1].returned = ran[1].given
        /\ (Cardinality(ClassesIn) = 2 /\ ~SomeMinority) => Appended = 0

IsPrefix(before, after) ==
    Len(before) <= Len(after) /\ SubSeq(after, 1, Len(before)) = before

\* C26: the run report is append-only: at every step the warnings and the
\* errors are what they were, followed by what the step appended; no entry
\* is removed, replaced, reordered or lost.
C26_AppendOnly ==
    [][IsPrefix(warnings, warnings') /\ IsPrefix(errors, errors')]_vars

\* a run whose report holds the entries of three stages, in stage order
C26_Witness ==
    /\ pc = "done"
    /\ Len(warnings) = 3
    /\ warnings[1].type = "TYPO_CORRECTION_COMPLETE"
    /\ warnings[2].type = "MISSING_VALUE_COMPLETE"
    /\ warnings[3].type = "CLASS_BALANCE_COMPLETE"

\* the columns of the input and the position of the detected one among them
InputColumns == Keys(input0[1])
DetectedAt(c) == options.targetColumn = InputColumns[c]
NamedBy(c, k) == Matches(InputColumns[c], k)
SomeNamed == \E c \in 1..Len(InputColumns), k \in 1..Len(targetCandidates) : NamedBy(c, k)
CategoricalAt(c) == LooksCategorical(NonNullValues(input0, InputColumns[c]))

\* C27: the detected target column is the first column containing the
\* earliest keyword of label, class, category, target, outcome, result that
\* any column contains; without such a column it is the first column with
\* uniqueRatio < 0.1 and 1 < unique count < 10; without that either there is
\* none and class balancing is switched off.
C27_TargetDetection ==
    (pc = "call" /\ Len(input0) > 0) =>
        IF SomeNamed
        THEN \E c \in 1..Len(InputColumns), k \in 1..Len(targetCandidates) :
                /\ DetectedAt(c) /\ NamedBy(c, k)
                /\ \A b \in 1..(c - 1) : ~NamedBy(b, k)
                /\ \A b \in 1..Len(InputColumns), j \in 1..(k - 1) : ~NamedBy(b, j)
                /\ options.balanceClasses = "true"
        ELSE IF \E c \in 1..Len(InputColumns) : CategoricalAt(c)
        THEN \E c \in 1..Len(InputColumns) :
                /\ DetectedAt(c) /\ CategoricalAt(c)
                /\ \A b \in 1..(c - 1) : ~CategoricalAt(b)
                /\ options.balanceClasses = "true"
        ELSE options.targetColumn = NoColumn /\ options.balanceClasses = "false"

\* the second column was detected by the keyword label though the first
\* column contains the keyword category
C27_Witness ==
    /\ pc = "call" /\ Len(input0) > 0
    /\ InputColumns = <<"category", "Label">>
    /\ options.targetColumn = "Label"

\* a column without any keyword was detected by its values
C27_WitnessByValues ==
    /\ pc = "call" /\ Len(input0) = ManyRows
    /\ UniqueCount(NonNullValues(input0, "value")) = 10
    /\ UniqueCount(NonNullValues(input0, "city")) = 9
    /\ options.targetColumn = "city"

\* C28: the wait between two attempts of a retried enrichment call is one
\* fixed delay: the pause before the second attempt equals the pause before
\* the third.
C28_FixedBackoff ==
    \A i \in 1..Len(enrichment.items) :
        \A a, b \in 1..Len(enrichment.items[i].waits) :
            enrichment.items[i].waits[a] = enrichment.items[i].waits[b]

\* the cells of a dataset that are missing by the MissingMarker rule
MissingByRule(rows) ==
    {<<i, c>> \in (1..Len(rows)) \X (1..Len(Keys(rows[1]))) :
        isMissing(Get(rows[i], Keys(rows[1])[c]))}

\* C29: missingValues of the statistics is the number of cells that are
\* absent, an empty or whitespace-only string, or one of null, undefined, na,
\* n/a, none in any case, and counts no other cell: a number 0 is not
\* missing.  Stated of the statistics of the enhanced processor.
C29_MissingValues ==
    (pc = "done" /\ Len(input0) > 0) =>
        /\ statistics.initial.missingValues = Cardinality(MissingByRule(input0))
        /\ statistics.final.missingValues = Cardinality(MissingByRule(Deref(cleanedData)))

\* the rows whose call is neither settled nor still to be issued
InFlight ==
    {i \in 1..Len(enrichment.items) : enrichment.items[i].state \in {"calling", "waiting"}}

\* the batch a row belongs to
BatchOf(i) == ((i - 1) \div BATCH_SIZE) + 1

\* at most BATCH_SIZE calls are in flight, all of the current batch; the rows
\* of earlier batches are settled and those of later batches not yet
\* reached; a row whose call has not answered holds the text it came with
BatchByBatch ==
    /\ Cardinality(InFlight) <= BATCH_SIZE
    /\ \A i \in 1..Len(enrichment.items) :
        /\ i \in InFlight => BatchOf(i) = enrichment.batch
        /\ BatchOf(i) < enrichment.batch => Settled(enrichment.items[i])
        /\ BatchOf(i) > enrichment.batch => enrichment.items[i] = IdleItem
        /\ enrichment.items[i].state # "ok" => TextNow(i) = TextBefore(i)

\* C30 as stated: the calls of correctTextWithAI go batch by batch, at most
\* BATCH_SIZE = 10 in flight, batch k+1 started only after every call of
\* batch k has settled, a call writing only the cell of its own row, and the
\* text of a row sent to the service at most once.
C30_SentOnce ==
    /\ BatchByBatch
    /\ \A i \in 1..Len(enrichment.items) : enrichment.items[i].calls <= 1

\* C30, amended: the calls of correctTextWithAI go batch by batch, at most
\* BATCH_SIZE = 10 in flight, batch k+1 started only after every call of
\* batch k has settled, a call writing only the cell of its own row; one call
\* is issued for a row, and it sends the text again only after an attempt
\* threw, at most MAX_RETRIES times in all.
C30_BatchByBatch ==
    /\ BatchByBatch
    /\ \A i \in 1..Len(enrichment.items) :
        /\ enrichment.items[i].calls <= MAX_RETRIES
        /\ enrichment.items[i].calls <= enrichment.items[i].failures + 1

\* the second batch is under way after a first batch of BATCH_SIZE calls
C30_Witness ==
    /\ pc = "settling"
    /\ enrichment.batch = 2
    /\ enrichment.items[BATCH_SIZE + 1].state = "calling"
    /\ \A i \in 1..BATCH_SIZE : enrichment.items[i].calls >= 1

====
